---- MODULE Spec2Model ----
(***************************************************************************)
(* State-tree migration nv14 (actors v5 -> v6): the parallel driver        *)
(* MigrateStateTree (actors/migration/nv14/top.go), the nil and cached     *)
(* migrators, the power-claim migrator (power.go) and the miner migrator.  *)
(*                                                                         *)
(* Content addressing is modelled by identity: a cid is the value it       *)
(* names, so the head of a miner actor is its miner state, the head of the *)
(* power actor is its power state and the root of a tree is the tree.      *)
(***************************************************************************)
EXTENDS Integers, Sequences, FiniteSets, TLC

\* Largest Config.MaxWorkers explored (0 is the invalid configuration).
MaxWorkersBound == 2
\* Largest Config.JobQueueSize and Config.ResultQueueSize explored (0 = unbuffered).
MaxQueueSize == 1

-----------------------------------------------------------------------------
(* Values *)

\* cid.Undef, a value that is the cid of no state and of no tree
Undef == [cid |-> "Undef"]
Nil == "nil"
\* the nil *migrationJobResult
NilResult == [result |-> "nil"]

ErrInvalidConfig == "invalid migration config"
ErrNoMigration == "no registered migration function"
ErrCanceled == "context canceled"
ErrRawBytePower == "nonzero RawBytePower on claim"
ErrQualityAdjPower == "nonzero QualityAdjPower on claim"
ErrSetActor == "SetActor failed"
ErrNegativeTransfer == "deleted test miner's balance was negative"
ErrNoRecipient == "could not find owner of the deleted miner nor f099"
ErrMinerField(f) == "test type miner has nonzero " \o f
\* job.run wraps a migrator's error
ErrMigrationFailed(e) == "state migration failed: " \o e

\* The 11 actor kinds of the release.
Kinds ==
    {"Account", "Cron", "Init", "Multisig", "PaymentChannel", "Reward",
     "StorageMarket", "StorageMiner", "StoragePower", "System", "VerifiedRegistry"}

\* builtin5.<kind>ActorCodeID and builtin6.<kind>ActorCodeID
CodeV5(k) == [v |-> 5, kind |-> k]
CodeV6(k) == [v |-> 6, kind |-> k]
\* a code identifier of no v5 actor
UnknownCode == [v |-> 4, kind |-> "Account"]

F099 == "f099"
\* the addresses of the explored trees, in the order in which ForEach visits them
AddrOrder == <<"f04", "f099", "t0100", "t0101", "t0102">>

TestPoStProofTypes ==
    {"StackedDrgWinning2KiBV1", "StackedDrgWinning8MiBV1", "StackedDrgWinning512MiBV1",
     "StackedDrgWindow2KiBV1", "StackedDrgWindow8MiBV1", "StackedDrgWindow512MiBV1"}

isTestPostProofType(proofType) == proofType \in TestPoStProofTypes

\* zero value of balanceTransferInfo
NoTransfer == [address |-> "address.Undef", value |-> 0]

-----------------------------------------------------------------------------
(* Migrators *)

nilMigrator(outCode) == [type |-> "nil", OutCodeCID |-> outCode]
powerMigrator == [type |-> "power"]
minerMigrator == [type |-> "miner"]
cachedMigration(m) == [type |-> "cached", actorMigration |-> m]

\* Maps prior version code CIDs to migration functions.
migrations ==
    [c \in {CodeV5(k) : k \in Kinds} |->
        IF c.kind = "StoragePower" THEN cachedMigration(powerMigrator)
        ELSE nilMigrator(CodeV6(c.kind))]

powerMigratedCodeCID == CodeV6("StorageMarket")
minerMigratedCodeCID == CodeV6("StorageMiner")

migratedCodeCID(m) ==
    LET base(b) == CASE b.type = "nil" -> b.OutCodeCID
                     [] b.type = "power" -> powerMigratedCodeCID
                     [] b.type = "miner" -> minerMigratedCodeCID
    IN  IF m.type = "cached" THEN base(m.actorMigration) ELSE base(m)

ActorHeadKey(addr, head) == <<addr, "-h-", head>>

\* A migrator's outcome: err = Nil and a result, or an error.
Ok(code, head, del, transfer) ==
    [err |-> Nil, newCodeCID |-> code, newHead |-> head,
     minerTypeMigrationShouldDelete |-> del,
     minerTypeMigrationBalanceTransferInfo |-> transfer]
Fail(e) ==
    [err |-> e, newCodeCID |-> Undef, newHead |-> Undef,
     minerTypeMigrationShouldDelete |-> FALSE,
     minerTypeMigrationBalanceTransferInfo |-> NoTransfer]

nilMigrateState(n, in) == Ok(n.OutCodeCID, in.head, FALSE, NoTransfer)

minerMigrateState(in) ==
    LET inState == in.head
        minerInfo == inState.Info
    IN  IF isTestPostProofType(minerInfo.WindowPoStProofType)
        THEN IF inState.PreCommitDeposits > 0 THEN Fail(ErrMinerField("PreCommitDeposits"))
             ELSE IF inState.LockedFunds > 0 THEN Fail(ErrMinerField("LockedFunds"))
             ELSE IF inState.FeeDebt > 0 THEN Fail(ErrMinerField("FeeDebt"))
             ELSE IF inState.InitialPledge > 0 THEN Fail(ErrMinerField("InitialPledge"))
             ELSE IF inState.Sectors # 0 THEN Fail(ErrMinerField("length of Sectors"))
             ELSE IF inState.PreCommittedSectors # 0
                  THEN Fail(ErrMinerField("length of PrecommittedSectors"))
             ELSE Ok(minerMigratedCodeCID, in.head, TRUE,
                     [address |-> minerInfo.Owner, value |-> in.balance])
        ELSE Ok(minerMigratedCodeCID, in.head, FALSE, NoTransfer)

\* builtin.ConsensusMinerMinPower(proofType) <= 0. The policy table is not part
\* of the migration: for the test proof types its value is the environment's
\* (testMinPower), for the others it is positive.
ConsensusMinerMinPowerLE0(proofType, testMinPower) ==
    IF isTestPostProofType(proofType) THEN testMinPower <= 0 ELSE FALSE

\* The keys of a claim map in the order ForEach visits them.
ClaimKeys(claims) == SelectSeq(AddrOrder, LAMBDA a : a \in DOMAIN claims)

\* claims.ForEach of powerMigrator.migrateState: the closure run on each key in
\* turn. mem is the in-memory map `claims`, count is outState.MinerCount.
RECURSIVE powerForEach(_, _, _, _, _)
powerForEach(keys, all, mem, count, testMinPower) ==
    IF keys = <<>> THEN [err |-> Nil, mem |-> mem, count |-> count]
    ELSE LET key == Head(keys)
             claim == all[key]
         IN  IF isTestPostProofType(claim.WindowPoStProofType)
             THEN IF claim.RawBytePower > 0
                  THEN [err |-> ErrRawBytePower, mem |-> mem, count |-> count]
                  ELSE IF claim.QualityAdjPower > 0
                  THEN [err |-> ErrQualityAdjPower, mem |-> mem, count |-> count]
                  ELSE IF ConsensusMinerMinPowerLE0(claim.WindowPoStProofType, testMinPower)
                  THEN powerForEach(Tail(keys), all,
                                    [k \in DOMAIN mem \ {key} |-> mem[k]],
                                    count - 1, testMinPower)
                  ELSE powerForEach(Tail(keys), all, mem, count, testMinPower)
             ELSE powerForEach(Tail(keys), all, mem, count, testMinPower)

\* powerMigrator.migrateState storing the state whatever ForEach returned.
powerMigrateStateIgnoresErr(in, testMinPower) ==
    LET inState == in.head
        walk == powerForEach(ClaimKeys(inState.Claims), inState.Claims,
                             inState.Claims, inState.MinerCount, testMinPower)
        outState == [MinerCount |-> walk.count,
                     MinerAboveMinPowerCount |-> inState.MinerAboveMinPowerCount,
                     Claims |-> inState.Claims]
    IN  [res |-> Ok(powerMigratedCodeCID, outState, FALSE, NoTransfer),
         puts |-> {outState}]

\* powerMigrator.migrateState. outState.Claims is assigned once, from
\* inState.Claims; DeleteClaim changes the map `claims` loaded from it, whose
\* root is never written back to outState before store.Put.
powerMigrateState(in, testMinPower) ==
    LET inState == in.head
        walk == powerForEach(ClaimKeys(inState.Claims), inState.Claims,
                             inState.Claims, inState.MinerCount, testMinPower)
        outState == [MinerCount |-> walk.count,
                     MinerAboveMinPowerCount |-> inState.MinerAboveMinPowerCount,
                     Claims |-> inState.Claims]
    IN  IF walk.err # Nil THEN [res |-> Fail(walk.err), puts |-> {}]
        ELSE [res |-> Ok(powerMigratedCodeCID, outState, FALSE, NoTransfer),
              puts |-> {outState}]

\* migrateState of a migrator that is not a cachedMigrator
baseMigrateState(m, in, testMinPower) ==
    CASE m.type = "nil" -> [res |-> nilMigrateState(m, in), puts |-> {}]
      [] m.type = "miner" -> [res |-> minerMigrateState(in), puts |-> {}]
      [] m.type = "power" -> powerMigrateState(in, testMinPower)

\* MigrationCache.Load(key, loadFunc): the value under the key if there is
\* one; else loadFunc's value, stored under the key unless loadFunc failed.
\* computed is loadFunc's outcome, used only on a miss.
cacheLoad(cache, key, computed) ==
    IF key \in DOMAIN cache
    THEN [err |-> Nil, cid |-> cache[key], cache |-> cache, miss |-> FALSE]
    ELSE IF computed.err # Nil
    THEN [err |-> computed.err, cid |-> Undef, cache |-> cache, miss |-> TRUE]
    ELSE [err |-> Nil, cid |-> computed.cid, cache |-> (key :> computed.cid) @@ cache,
          miss |-> TRUE]

\* cachedMigrateState passing on the deletion flag and the transfer of the
\* wrapped migrator when it ran it.
cachedMigrateStatePassesDelete(c, in, cache, testMinPower) ==
    LET r == baseMigrateState(c.actorMigration, in, testMinPower)
        l == cacheLoad(cache, ActorHeadKey(in.address, in.head),
                       [err |-> r.res.err, cid |-> r.res.newHead])
    IN  [res |-> IF l.err # Nil THEN Fail(l.err)
                 ELSE IF l.miss
                 THEN Ok(migratedCodeCID(c), l.cid, r.res.minerTypeMigrationShouldDelete,
                         r.res.minerTypeMigrationBalanceTransferInfo)
                 ELSE Ok(migratedCodeCID(c), l.cid, FALSE, NoTransfer),
         cache |-> l.cache,
         puts |-> IF l.miss THEN r.puts ELSE {},
         computed |-> l.miss]

\* cachedMigrateState running the wrapped migrator before it consults the cache.
cachedMigrateStateEager(c, in, cache, testMinPower) ==
    LET r == baseMigrateState(c.actorMigration, in, testMinPower)
        l == cacheLoad(cache, ActorHeadKey(in.address, in.head),
                       [err |-> r.res.err, cid |-> r.res.newHead])
    IN  [res |-> IF r.res.err # Nil THEN Fail(r.res.err)
                 ELSE IF l.err # Nil THEN Fail(l.err)
                 ELSE Ok(migratedCodeCID(c), l.cid, FALSE, NoTransfer),
         cache |-> l.cache,
         puts |-> r.puts,
         computed |-> TRUE]

\* cachedMigrator.migrateState: the head comes from the cache, loaded through
\* the wrapped migrator; should_delete and the transfer are not passed on.
cachedMigrateState(c, in, cache, testMinPower) ==
    LET r == baseMigrateState(c.actorMigration, in, testMinPower)
        l == cacheLoad(cache, ActorHeadKey(in.address, in.head),
                       [err |-> r.res.err, cid |-> r.res.newHead])
    IN  [res |-> IF l.err # Nil THEN Fail(l.err)
                 ELSE Ok(migratedCodeCID(c), l.cid, FALSE, NoTransfer),
         cache |-> l.cache,
         puts |-> IF l.miss THEN r.puts ELSE {},
         computed |-> l.miss]

migrateState(m, in, cache, testMinPower) ==
    IF m.type = "cached" THEN cachedMigrateState(m, in, cache, testMinPower)
    ELSE LET r == baseMigrateState(m, in, testMinPower)
         IN  [res |-> r.res, cache |-> cache, puts |-> r.puts, computed |-> FALSE]

\* jobRun leaving the call sequence number of the new record at its zero value.
jobRunDropsCallSeq(job, cache, testMinPower) ==
    LET r == migrateState(job.actorMigration,
                          [address |-> job.Address, balance |-> job.Actor.Balance,
                           head |-> job.Actor.Head],
                          cache, testMinPower)
    IN  IF r.res.err # Nil
        THEN [err |-> ErrMigrationFailed(r.res.err), result |-> NilResult,
              cache |-> r.cache, puts |-> r.puts, computed |-> r.computed]
        ELSE [err |-> Nil,
              result |-> [minerTypeMigrationShouldDelete |->
                              r.res.minerTypeMigrationShouldDelete,
                          minerTypeMigrationBalanceTransferInfo |->
                              r.res.minerTypeMigrationBalanceTransferInfo,
                          address |-> job.Address,
                          actor |-> [Code |-> r.res.newCodeCID,
                                     Head |-> r.res.newHead,
                                     CallSeqNum |-> 0,
                                     Balance |-> job.Actor.Balance]],
              cache |-> r.cache, puts |-> r.puts, computed |-> r.computed]

\* migrationJob.run: the job's result, or the wrapped error, with the cache and
\* the store puts it leaves.
jobRun(job, cache, testMinPower) ==
    LET r == migrateState(job.actorMigration,
                          [address |-> job.Address, balance |-> job.Actor.Balance,
                           head |-> job.Actor.Head],
                          cache, testMinPower)
    IN  IF r.res.err # Nil
        THEN [err |-> ErrMigrationFailed(r.res.err), result |-> NilResult,
              cache |-> r.cache, puts |-> r.puts, computed |-> r.computed]
        ELSE [err |-> Nil,
              result |-> [minerTypeMigrationShouldDelete |->
                              r.res.minerTypeMigrationShouldDelete,
                          minerTypeMigrationBalanceTransferInfo |->
                              r.res.minerTypeMigrationBalanceTransferInfo,
                          address |-> job.Address,
                          actor |-> [Code |-> r.res.newCodeCID,
                                     Head |-> r.res.newHead,
                                     CallSeqNum |-> job.Actor.CallSeqNum,
                                     Balance |-> job.Actor.Balance]],
              cache |-> r.cache, puts |-> r.puts, computed |-> r.computed]

-----------------------------------------------------------------------------
(* The balance-transfer pass *)

\* applyTransfer setting the balance to the amount instead of adding it.
applyTransferOverwrite(tree, bTransfer) ==
    IF ~(bTransfer.value >= 0) THEN [err |-> ErrNegativeTransfer, tree |-> tree]
    ELSE LET found == bTransfer.address \in DOMAIN tree
             incrementaddr == IF found THEN bTransfer.address ELSE F099
         IN  IF ~found /\ F099 \notin DOMAIN tree
             THEN [err |-> ErrNoRecipient, tree |-> tree]
             ELSE [err |-> Nil,
                   tree |-> [tree EXCEPT ![incrementaddr].Balance = bTransfer.value]]

\* applyTransfer failing when the recipient is absent, without the fallback.
applyTransferNoFallback(tree, bTransfer) ==
    IF ~(bTransfer.value >= 0) THEN [err |-> ErrNegativeTransfer, tree |-> tree]
    ELSE IF bTransfer.address \notin DOMAIN tree
    THEN [err |-> ErrNoRecipient, tree |-> tree]
    ELSE [err |-> Nil,
          tree |-> [tree EXCEPT ![bTransfer.address].Balance = @ + bTransfer.value]]

\* One iteration of the loop counting the credit as a call of the actor.
applyTransferBumpsCallSeq(tree, bTransfer) ==
    IF ~(bTransfer.value >= 0) THEN [err |-> ErrNegativeTransfer, tree |-> tree]
    ELSE LET found == bTransfer.address \in DOMAIN tree
             incrementaddr == IF found THEN bTransfer.address ELSE F099
         IN  IF ~found /\ F099 \notin DOMAIN tree
             THEN [err |-> ErrNoRecipient, tree |-> tree]
             ELSE [err |-> Nil,
                   tree |-> [tree EXCEPT ![incrementaddr].Balance = @ + bTransfer.value,
                                         ![incrementaddr].CallSeqNum = @ + 1]]

\* One iteration of the loop creating an account for a recipient the tree
\* does not hold.
applyTransferCreatesRecipient(tree, bTransfer) ==
    IF ~(bTransfer.value >= 0) THEN [err |-> ErrNegativeTransfer, tree |-> tree]
    ELSE IF bTransfer.address \in DOMAIN tree
    THEN [err |-> Nil,
          tree |-> [tree EXCEPT ![bTransfer.address].Balance = @ + bTransfer.value]]
    ELSE [err |-> Nil,
          tree |-> (bTransfer.address :>
                        [Code |-> CodeV6("Account"), Head |-> [state |-> "bafyAccount"],
                         CallSeqNum |-> 0, Balance |-> bTransfer.value]) @@ tree]

\* One iteration of the loop without the test of the sign of the amount.
applyTransferNoSignCheck(tree, bTransfer) ==
    LET found == bTransfer.address \in DOMAIN tree
        incrementaddr == IF found THEN bTransfer.address ELSE F099
    IN  IF ~found /\ F099 \notin DOMAIN tree
        THEN [err |-> ErrNoRecipient, tree |-> tree]
        ELSE [err |-> Nil,
              tree |-> [tree EXCEPT ![incrementaddr].Balance = @ + bTransfer.value]]

\* One iteration of the loop over balanceTransferList.
applyTransfer(tree, bTransfer) ==
    IF ~(bTransfer.value >= 0) THEN [err |-> ErrNegativeTransfer, tree |-> tree]
    ELSE LET found == bTransfer.address \in DOMAIN tree
             incrementaddr == IF found THEN bTransfer.address ELSE F099
         IN  IF ~found /\ F099 \notin DOMAIN tree
             THEN [err |-> ErrNoRecipient, tree |-> tree]
             ELSE [err |-> Nil,
                   tree |-> [tree EXCEPT ![incrementaddr].Balance = @ + bTransfer.value]]

RECURSIVE balanceTransferPass(_, _)
balanceTransferPass(tree, list) ==
    IF list = <<>> THEN [err |-> Nil, tree |-> tree]
    ELSE LET r == applyTransfer(tree, Head(list))
         IN  IF r.err # Nil THEN r ELSE balanceTransferPass(r.tree, Tail(list))

-----------------------------------------------------------------------------
(* Input trees *)

Actor(code, head, seq, balance) ==
    [Code |-> code, Head |-> head, CallSeqNum |-> seq, Balance |-> balance]

MinerState(proof, owner, locked, sectors) ==
    [PreCommitDeposits |-> 0, LockedFunds |-> locked, FeeDebt |-> 0,
     InitialPledge |-> 0, Sectors |-> sectors, PreCommittedSectors |-> 0,
     Info |-> [Owner |-> owner, WindowPoStProofType |-> proof]]

PowerState(claims) ==
    [MinerCount |-> Cardinality(DOMAIN claims), MinerAboveMinPowerCount |-> 0,
     Claims |-> claims]

Claim(proof, raw, qa) ==
    [WindowPoStProofType |-> proof, RawBytePower |-> raw, QualityAdjPower |-> qa]

Absent == [a \in {} |-> a]

\* The head of an actor of kind k whose state the migration never decodes.
PlainHead(k) == [state |-> "bafy" \o k]

\* f099: absent, or the burn account.
BurnOptions == {Absent, "f099" :> Actor(CodeV5("Account"), PlainHead("Account"), 0, 1)}

\* t0100: absent, or an actor of any kind or of an unknown code. As a miner it
\* is a production miner owned by f099, as the power actor it has no claims.
KindHead(k) ==
    CASE k = "StorageMiner" -> MinerState("StackedDrgWindow32GiBV1", "f099", 0, 0)
      [] k = "StoragePower" -> PowerState(Absent)
      [] OTHER -> PlainHead(k)
OwnerOptions ==
    {Absent, "t0100" :> Actor(UnknownCode, PlainHead("Unknown"), 3, 5)}
    \cup {"t0100" :> Actor(CodeV5(k), KindHead(k), 3, 5) : k \in Kinds}

\* t0101: absent, or a miner owned by t0100: a test miner with all fields zero,
\* a test miner with locked funds or with a sector, or a production miner.
MinerStates ==
    {MinerState("StackedDrgWindow2KiBV1", "t0100", 0, 0),
     MinerState("StackedDrgWindow2KiBV1", "t0100", 1, 0),
     MinerState("StackedDrgWindow8MiBV1", "t0100", 0, 1),
     MinerState("StackedDrgWindow32GiBV1", "t0100", 0, 0)}
MinerOptions ==
    {Absent} \cup {"t0101" :> Actor(CodeV5("StorageMiner"), st, 0, 7) : st \in MinerStates}

\* f04: absent, or the power actor. It holds a claim for t0101 exactly when
\* t0101 is a miner, with that miner's proof type.
ClaimOptions(minerOpt) ==
    IF minerOpt = Absent THEN {Absent}
    ELSE {"t0101" :> Claim(minerOpt["t0101"].Head.Info.WindowPoStProofType, p[1], p[2]) :
             p \in {<<0, 0>>, <<1, 0>>, <<0, 1>>}}
PowerOptions(minerOpt) ==
    {Absent} \cup
    {"f04" :> Actor(CodeV5("StoragePower"), PowerState(c), 0, 0) : c \in ClaimOptions(minerOpt)}

\* The explored input trees. A tree whose t0100 is neither absent, an account
\* nor of unknown code has no miner at t0101 and no power actor at f04.
InputTrees ==
    {t \in UNION {{b @@ o @@ m @@ p : b \in BurnOptions, o \in OwnerOptions,
                                      p \in PowerOptions(m)} : m \in MinerOptions} :
        \/ "t0100" \notin DOMAIN t
        \/ t["t0100"].Code \in {CodeV5("Account"), UnknownCode}
        \/ DOMAIN t \cap {"t0101", "f04"} = {}}

\* The addresses of a tree in the order ForEach visits them.
Traversal(tree) == SelectSeq(AddrOrder, LAMBDA a : a \in DOMAIN tree)

RECURSIVE SumBalances(_, _)
SumBalances(tree, addrs) ==
    IF addrs = {} THEN 0
    ELSE LET a == CHOOSE x \in addrs : TRUE
         IN  tree[a].Balance + SumBalances(tree, addrs \ {a})
TotalBalance(tree) == SumBalances(tree, DOMAIN tree)

-----------------------------------------------------------------------------
(* The driver: MigrateStateTree *)

VARIABLES
    cfg,                 \* Config: MaxWorkers, JobQueueSize, ResultQueueSize
    actorsIn,            \* the input tree (actorsRootIn)
    testMinPower,        \* the environment's ConsensusMinerMinPower of test proof types
    cache,               \* MigrationCache: key -> cid
    stored,              \* values put to the store
    wrappedCalls,        \* calls of the migrator a cachedMigrator wraps, in this run
    firstRun,            \* an earlier successful run on this input, store and cache: done, root
    minerWired,          \* the miner code is migrated by minerMigrator, not by its nilMigrator
    minerCached,         \* ... and that minerMigrator is wrapped by cachedMigration
    mainPc,              \* "entry", "wait", "transfer", "returned"
    ret,                 \* what MigrateStateTree returned: root, err
    treesLoaded,         \* actorsIn loaded and actorsOut created
    actorsOut,           \* the output tree
    flushed,             \* actorsOut.Flush() was called
    grpErr,              \* errgroup: the first error a stage returned
    ctxDone,             \* the errgroup's context is cancelled
    jobCh, jobChClosed,
    jobResultCh, jobResultChClosed,
    prodPc,              \* producer: "none", "iter", "count", "exited"
    prodIdx,             \* position of the producer in the traversal
    sent,                \* the addresses whose job was sent to jobCh, in order
    jobCount, doneCount, \* progress counters (uint32; a tree here has far fewer actors)
    wPc,                 \* worker -> "recv", "send", "count", "exited"
    wRes,                \* worker -> the result it is delivering
    closerPc,            \* channel closer: "none", "wait", "exited"
    writerPc,            \* writer: "none", "recv", "exited"
    resultCount, deletedActorCount,
    balanceTransferList,
    consumed             \* the addresses of the results the writer received, in order

vars ==
    <<cfg, actorsIn, testMinPower, firstRun, minerWired, minerCached, cache, stored,
      wrappedCalls, mainPc, ret,
      treesLoaded, actorsOut, flushed, grpErr, ctxDone, jobCh, jobChClosed, jobResultCh,
      jobResultChClosed,
      prodPc, prodIdx, sent, jobCount, doneCount, wPc, wRes, closerPc, writerPc,
      resultCount, deletedActorCount, balanceTransferList, consumed>>

envVars == <<cfg, actorsIn, testMinPower, firstRun, minerWired, minerCached>>
producerVars == <<prodPc, prodIdx, sent, jobCount>>
mainVars == <<mainPc, ret, treesLoaded, flushed>>

\* the workers started
Workers == DOMAIN wPc

Configs ==
    [MaxWorkers : 0..MaxWorkersBound, JobQueueSize : 0..MaxQueueSize,
     ResultQueueSize : 0..MaxQueueSize]

\* Some claim of the tree's power actors reaches the ConsensusMinerMinPower test.
MinPowerMatters(tree) ==
    \E a \in DOMAIN tree :
        /\ tree[a].Code = CodeV5("StoragePower")
        /\ \E m \in DOMAIN tree[a].Head.Claims :
               isTestPostProofType(tree[a].Head.Claims[m].WindowPoStProofType)

Init ==
    /\ cfg \in Configs
    /\ actorsIn \in InputTrees
    /\ testMinPower \in (IF MinPowerMatters(actorsIn) THEN {0, 1} ELSE {0})
    /\ firstRun = [done |-> FALSE, root |-> Absent]
    /\ minerWired = FALSE
    /\ minerCached = FALSE
    /\ cache = Absent
    /\ stored = {}
    /\ wrappedCalls = 0
    /\ mainPc = "entry"
    /\ ret = [root |-> Undef, err |-> Nil]
    /\ treesLoaded = FALSE
    /\ actorsOut = Absent
    /\ flushed = FALSE
    /\ grpErr = Nil
    /\ ctxDone = FALSE
    /\ jobCh = <<>> /\ jobChClosed = FALSE
    /\ jobResultCh = <<>> /\ jobResultChClosed = FALSE
    /\ prodPc = "none" /\ prodIdx = 1 /\ sent = <<>>
    /\ jobCount = 0 /\ doneCount = 0
    /\ wPc = <<>> /\ wRes = <<>>
    /\ closerPc = "none"
    /\ writerPc = "none"
    /\ resultCount = 0 /\ deletedActorCount = 0
    /\ balanceTransferList = <<>>
    /\ consumed = <<>>

\* errgroup.Group.Go: a stage returning a non-nil error records it if it is the
\* first and cancels the context.
GrpReturn(err) ==
    IF err = Nil THEN UNCHANGED <<grpErr, ctxDone>>
    ELSE /\ grpErr' = (IF grpErr = Nil THEN err ELSE grpErr)
         /\ ctxDone' = TRUE

\* Start without the configuration check.
StartNoConfigCheck ==
    /\ mainPc = "entry"
    /\ mainPc' = "wait"
    /\ treesLoaded' = TRUE
    /\ prodPc' = "iter"
    /\ wPc' = [w \in 1..cfg.MaxWorkers |-> "recv"]
    /\ wRes' = [w \in 1..cfg.MaxWorkers |-> NilResult]
    /\ closerPc' = "wait"
    /\ writerPc' = "recv"
    /\ UNCHANGED <<envVars, ret, cache, stored, wrappedCalls, actorsOut, flushed, grpErr,
                   ctxDone, jobCh,
                   jobChClosed, jobResultCh, jobResultChClosed, prodIdx, sent, jobCount,
                   doneCount, resultCount, deletedActorCount, balanceTransferList,
                   consumed>>

\* Entry: the configuration check, the registration check, the two trees and
\* the start of the producer, the workers, the closer and the writer.
Start ==
    /\ mainPc = "entry"
    /\ IF cfg.MaxWorkers <= 0
       THEN /\ mainPc' = "returned"
            /\ ret' = [root |-> Undef, err |-> ErrInvalidConfig]
            /\ UNCHANGED <<treesLoaded, prodPc, wPc, wRes, closerPc, writerPc>>
       ELSE IF Cardinality(DOMAIN migrations) # 11
       THEN /\ mainPc' = "panicked"
            /\ UNCHANGED <<ret, treesLoaded, prodPc, wPc, wRes, closerPc, writerPc>>
       ELSE /\ mainPc' = "wait"
            /\ treesLoaded' = TRUE
            /\ prodPc' = "iter"
            /\ wPc' = [w \in 1..cfg.MaxWorkers |-> "recv"]
            /\ wRes' = [w \in 1..cfg.MaxWorkers |-> NilResult]
            /\ closerPc' = "wait"
            /\ writerPc' = "recv"
            /\ UNCHANGED ret
    /\ UNCHANGED <<envVars, cache, stored, wrappedCalls, actorsOut, flushed, grpErr, ctxDone, jobCh,
                   jobChClosed, jobResultCh, jobResultChClosed, prodIdx, sent, jobCount,
                   doneCount, resultCount, deletedActorCount, balanceTransferList, consumed>>

(* Producer *)

ProducerHasActor == prodPc = "iter" /\ prodIdx <= Len(Traversal(actorsIn))
NextAddr == Traversal(actorsIn)[prodIdx]
NextCodeKnown == actorsIn[NextAddr].Code \in DOMAIN migrations
\* the migrator the run uses for a code: the registered one, or, for the miner
\* code when it is the one wired in, the miner migrator, bare or wrapped by
\* cachedMigration
migrationOf(code) ==
    IF minerWired /\ code = CodeV5("StorageMiner")
    THEN (IF minerCached THEN cachedMigration(minerMigrator) ELSE minerMigrator)
    ELSE migrations[code]
\* the job built for the actor the traversal is at
nextInput ==
    [Address |-> NextAddr, Actor |-> actorsIn[NextAddr],
     actorMigration |-> migrationOf(actorsIn[NextAddr].Code)]
\* the producer is at its select with a job in hand
ProducerSending == ProducerHasActor /\ NextCodeKnown

\* ProducerUnknownCode skipping the actor instead of failing.
ProducerSkipsUnknownCode ==
    /\ prodPc = "iter" /\ prodIdx <= Len(Traversal(actorsIn))
    /\ actorsIn[NextAddr].Code \notin DOMAIN migrations
    /\ prodIdx' = prodIdx + 1
    /\ UNCHANGED <<envVars, cache, stored, wrappedCalls, mainPc, ret, treesLoaded, flushed,
                   actorsOut,
                   grpErr, ctxDone, jobCh, jobChClosed, jobResultCh, jobResultChClosed,
                   prodPc, sent, jobCount, doneCount, wPc, wRes, closerPc, writerPc,
                   resultCount, deletedActorCount, balanceTransferList, consumed>>

ProducerUnknownCode ==
    /\ ProducerHasActor
    /\ ~NextCodeKnown
    /\ prodPc' = "exited"
    /\ jobChClosed' = TRUE
    /\ GrpReturn(ErrNoMigration)
    /\ UNCHANGED <<envVars, cache, stored, wrappedCalls, mainVars, actorsOut, jobCh, jobResultCh,
                   jobResultChClosed, prodIdx, sent, jobCount, doneCount, wPc, wRes,
                   closerPc, writerPc, resultCount, deletedActorCount,
                   balanceTransferList, consumed>>

ProducerSend ==
    /\ ProducerSending
    /\ Len(jobCh) < cfg.JobQueueSize
    /\ jobCh' = Append(jobCh, nextInput)
    /\ sent' = Append(sent, NextAddr)
    /\ prodPc' = "count"
    /\ UNCHANGED <<envVars, cache, stored, wrappedCalls, mainVars, actorsOut, grpErr, ctxDone,
                   jobChClosed, jobResultCh, jobResultChClosed, prodIdx, jobCount,
                   doneCount, wPc, wRes, closerPc, writerPc, resultCount,
                   deletedActorCount, balanceTransferList, consumed>>

\* ProducerCanceled returning without closing the job channel.
ProducerCanceledLeavesOpen ==
    /\ prodPc = "iter" /\ prodIdx <= Len(Traversal(actorsIn))
    /\ actorsIn[NextAddr].Code \in DOMAIN migrations
    /\ ctxDone
    /\ prodPc' = "exited"
    /\ grpErr' = (IF grpErr = Nil THEN ErrCanceled ELSE grpErr)
    /\ UNCHANGED <<envVars, cache, stored, wrappedCalls, mainPc, ret, treesLoaded, flushed,
                   actorsOut, ctxDone, jobCh, jobChClosed, jobResultCh, jobResultChClosed,
                   prodIdx, sent, jobCount, doneCount, wPc, wRes, closerPc, writerPc,
                   resultCount, deletedActorCount, balanceTransferList, consumed>>

\* The producer's select when the context is cancelled: the cancellation case
\* is ready, and so is the send case if the job channel can take the job.
ProducerCanceled ==
    /\ ProducerSending
    /\ ctxDone
    /\ prodPc' = "exited"
    /\ jobChClosed' = TRUE
    /\ GrpReturn(ErrCanceled)
    /\ UNCHANGED <<envVars, cache, stored, wrappedCalls, mainVars, actorsOut, jobCh, jobResultCh,
                   jobResultChClosed, prodIdx, sent, jobCount, doneCount, wPc, wRes,
                   closerPc, writerPc, resultCount, deletedActorCount,
                   balanceTransferList, consumed>>

ProducerCount ==
    /\ prodPc = "count"
    /\ jobCount' = jobCount + 1
    /\ prodIdx' = prodIdx + 1
    /\ prodPc' = "iter"
    /\ UNCHANGED <<envVars, cache, stored, wrappedCalls, mainVars, actorsOut, grpErr, ctxDone,
                   jobCh,
                   jobChClosed, jobResultCh, jobResultChClosed, sent, doneCount, wPc, wRes,
                   closerPc, writerPc, resultCount, deletedActorCount,
                   balanceTransferList, consumed>>

ProducerDone ==
    /\ prodPc = "iter"
    /\ prodIdx > Len(Traversal(actorsIn))
    /\ prodPc' = "exited"
    /\ jobChClosed' = TRUE
    /\ UNCHANGED <<envVars, cache, stored, wrappedCalls, mainVars, actorsOut, grpErr, ctxDone,
                   jobCh,
                   jobResultCh, jobResultChClosed, prodIdx, sent, jobCount, doneCount, wPc,
                   wRes, closerPc, writerPc, resultCount, deletedActorCount,
                   balanceTransferList, consumed>>

(* Workers *)

\* The body of the worker's loop for a job it received: job.run, then either
\* the error is returned or the result is held for delivery.
WorkerRun(w, job) ==
    \E r \in {jobRun(job, cache, testMinPower)} :
        /\ cache' = r.cache
        /\ stored' = stored \cup r.puts
        /\ wrappedCalls' = wrappedCalls + (IF r.computed THEN 1 ELSE 0)
        /\ IF r.err # Nil
           THEN /\ wPc' = [wPc EXCEPT ![w] = "exited"]
                /\ wRes' = wRes
                /\ GrpReturn(r.err)
           ELSE /\ wPc' = [wPc EXCEPT ![w] = "send"]
                /\ wRes' = [wRes EXCEPT ![w] = r.result]
                /\ GrpReturn(Nil)

\* WorkerRecv leaving the job it received in the job queue.
WorkerRecvLeavesJob(w) ==
    /\ wPc[w] = "recv"
    /\ jobCh # <<>>
    /\ jobCh' = jobCh
    /\ WorkerRun(w, Head(jobCh))
    /\ UNCHANGED <<envVars, mainPc, ret, treesLoaded, flushed, actorsOut, jobChClosed,
                   jobResultCh, jobResultChClosed, prodPc, prodIdx, sent, jobCount,
                   doneCount, closerPc, writerPc, resultCount, deletedActorCount,
                   balanceTransferList, consumed>>

\* A worker receives the job at the head of the job queue.
WorkerRecv(w) ==
    /\ wPc[w] = "recv"
    /\ jobCh # <<>>
    /\ jobCh' = Tail(jobCh)
    /\ WorkerRun(w, Head(jobCh))
    /\ UNCHANGED <<envVars, mainVars, actorsOut, jobChClosed, jobResultCh,
                   jobResultChClosed, producerVars, doneCount, closerPc, writerPc,
                   resultCount, deletedActorCount, balanceTransferList, consumed>>

\* Unbuffered job channel: the producer's send and a worker's receive meet.
WorkerRecvDirect(w) ==
    /\ wPc[w] = "recv"
    /\ cfg.JobQueueSize = 0
    /\ ProducerSending
    /\ sent' = Append(sent, NextAddr)
    /\ prodPc' = "count"
    /\ WorkerRun(w, nextInput)
    /\ UNCHANGED <<envVars, mainVars, actorsOut, jobCh, jobChClosed, jobResultCh,
                   jobResultChClosed, prodIdx, jobCount, doneCount, closerPc, writerPc,
                   resultCount, deletedActorCount, balanceTransferList, consumed>>

\* The job channel is closed and drained: the worker returns nil.
WorkerExit(w) ==
    /\ wPc[w] = "recv"
    /\ jobCh = <<>>
    /\ jobChClosed
    /\ wPc' = [wPc EXCEPT ![w] = "exited"]
    /\ UNCHANGED <<envVars, cache, stored, wrappedCalls, mainVars, actorsOut, grpErr, ctxDone,
                   jobCh,
                   jobChClosed, jobResultCh, jobResultChClosed, producerVars, doneCount,
                   wRes, closerPc, writerPc, resultCount, deletedActorCount,
                   balanceTransferList, consumed>>

\* WorkerSend dropping the result when the result channel is not ready.
WorkerSendOrDrop(w) ==
    /\ wPc[w] = "send"
    /\ jobResultCh' = IF Len(jobResultCh) < cfg.ResultQueueSize
                      THEN Append(jobResultCh, wRes[w]) ELSE jobResultCh
    /\ wPc' = [wPc EXCEPT ![w] = "count"]
    /\ wRes' = [wRes EXCEPT ![w] = NilResult]
    /\ UNCHANGED <<envVars, cache, stored, wrappedCalls, mainPc, ret, treesLoaded, flushed,
                   actorsOut,
                   grpErr, ctxDone, jobCh, jobChClosed, jobResultChClosed, prodPc,
                   prodIdx, sent, jobCount, doneCount, closerPc, writerPc, resultCount,
                   deletedActorCount, balanceTransferList, consumed>>

WorkerSend(w) ==
    /\ wPc[w] = "send"
    /\ Len(jobResultCh) < cfg.ResultQueueSize
    /\ jobResultCh' = Append(jobResultCh, wRes[w])
    /\ wPc' = [wPc EXCEPT ![w] = "count"]
    /\ wRes' = [wRes EXCEPT ![w] = NilResult]
    /\ UNCHANGED <<envVars, cache, stored, wrappedCalls, mainVars, actorsOut, grpErr, ctxDone,
                   jobCh,
                   jobChClosed, jobResultChClosed, producerVars, doneCount, closerPc,
                   writerPc, resultCount, deletedActorCount, balanceTransferList, consumed>>

WorkerCanceled(w) ==
    /\ wPc[w] = "send"
    /\ ctxDone
    /\ wPc' = [wPc EXCEPT ![w] = "exited"]
    /\ wRes' = [wRes EXCEPT ![w] = NilResult]
    /\ GrpReturn(ErrCanceled)
    /\ UNCHANGED <<envVars, cache, stored, wrappedCalls, mainVars, actorsOut, jobCh, jobChClosed,
                   jobResultCh, jobResultChClosed, producerVars, doneCount, closerPc,
                   writerPc, resultCount, deletedActorCount, balanceTransferList, consumed>>

WorkerCount(w) ==
    /\ wPc[w] = "count"
    /\ doneCount' = doneCount + 1
    /\ wPc' = [wPc EXCEPT ![w] = "recv"]
    /\ UNCHANGED <<envVars, cache, stored, wrappedCalls, mainVars, actorsOut, grpErr, ctxDone,
                   jobCh,
                   jobChClosed, jobResultCh, jobResultChClosed, producerVars, wRes,
                   closerPc, writerPc, resultCount, deletedActorCount,
                   balanceTransferList, consumed>>

(* Channel closer *)

\* CloserClose waiting for the producer instead of the workers.
CloserClosesOnProducerExit ==
    /\ closerPc = "wait"
    /\ prodPc = "exited"
    /\ jobResultChClosed' = TRUE
    /\ closerPc' = "exited"
    /\ UNCHANGED <<envVars, cache, stored, wrappedCalls, mainPc, ret, treesLoaded, flushed,
                   actorsOut, grpErr, ctxDone, jobCh, jobChClosed, jobResultCh, prodPc,
                   prodIdx, sent, jobCount, doneCount, wPc, wRes, writerPc, resultCount,
                   deletedActorCount, balanceTransferList, consumed>>

\* CloserClose not waiting for every worker: it closes the result channel as
\* soon as one worker has exited.
CloserClosesEarly ==
    /\ closerPc = "wait"
    /\ \E w \in Workers : wPc[w] = "exited"
    /\ jobResultChClosed' = TRUE
    /\ closerPc' = "exited"
    /\ UNCHANGED <<envVars, cache, stored, wrappedCalls, mainPc, ret, treesLoaded, flushed,
                   actorsOut,
                   grpErr, ctxDone, jobCh, jobChClosed, jobResultCh, prodPc, prodIdx,
                   sent, jobCount, doneCount, wPc, wRes, writerPc, resultCount,
                   deletedActorCount, balanceTransferList, consumed>>

\* CloserClose returning without closing the result channel.
CloserReturnsWithoutClose ==
    /\ closerPc = "wait"
    /\ \A w \in Workers : wPc[w] = "exited"
    /\ closerPc' = "exited"
    /\ UNCHANGED <<envVars, cache, stored, wrappedCalls, mainVars, actorsOut, grpErr, ctxDone,
                   jobCh, jobChClosed, jobResultCh, jobResultChClosed, producerVars,
                   doneCount, wPc, wRes, writerPc, resultCount, deletedActorCount,
                   balanceTransferList, consumed>>

CloserClose ==
    /\ closerPc = "wait"
    /\ \A w \in Workers : wPc[w] = "exited"
    /\ jobResultChClosed' = TRUE
    /\ closerPc' = "exited"
    /\ UNCHANGED <<envVars, cache, stored, wrappedCalls, mainVars, actorsOut, grpErr, ctxDone,
                   jobCh,
                   jobChClosed, jobResultCh, producerVars, doneCount, wPc, wRes,
                   writerPc, resultCount, deletedActorCount, balanceTransferList, consumed>>

(* Result writer *)

\* WriterRoute inserting the record of a result flagged for deletion as well.
WriterRouteInsertsDeleted(result, setOk) ==
    IF ~setOk
    THEN /\ writerPc' = "exited"
         /\ grpErr' = (IF grpErr = Nil THEN ErrSetActor ELSE grpErr)
         /\ ctxDone' = TRUE
         /\ UNCHANGED <<actorsOut, resultCount, deletedActorCount, balanceTransferList>>
    ELSE /\ actorsOut' = (result.address :> result.actor) @@ actorsOut
         /\ IF result.minerTypeMigrationShouldDelete
            THEN /\ balanceTransferList' =
                        Append(balanceTransferList,
                               result.minerTypeMigrationBalanceTransferInfo)
                 /\ deletedActorCount' = deletedActorCount + 1
                 /\ UNCHANGED resultCount
            ELSE /\ resultCount' = resultCount + 1
                 /\ UNCHANGED <<deletedActorCount, balanceTransferList>>
         /\ UNCHANGED <<grpErr, ctxDone, writerPc>>

\* WriterRoute putting a transfer at the front of the list.
WriterRoutePushFront(result, setOk) ==
    IF result.minerTypeMigrationShouldDelete
    THEN /\ balanceTransferList' =
                <<result.minerTypeMigrationBalanceTransferInfo>> \o balanceTransferList
         /\ deletedActorCount' = deletedActorCount + 1
         /\ UNCHANGED <<grpErr, ctxDone, actorsOut, resultCount, writerPc>>
    ELSE IF ~setOk
    THEN /\ writerPc' = "exited"
         /\ grpErr' = (IF grpErr = Nil THEN ErrSetActor ELSE grpErr)
         /\ ctxDone' = TRUE
         /\ UNCHANGED <<actorsOut, resultCount, deletedActorCount, balanceTransferList>>
    ELSE /\ actorsOut' = (result.address :> result.actor) @@ actorsOut
         /\ resultCount' = resultCount + 1
         /\ UNCHANGED <<grpErr, ctxDone, writerPc, deletedActorCount, balanceTransferList>>

\* The body of the writer's loop for a result; setOk is whether SetActor
\* succeeds.
WriterRoute(result, setOk) ==
    IF result.minerTypeMigrationShouldDelete
    THEN /\ balanceTransferList' =
                Append(balanceTransferList, result.minerTypeMigrationBalanceTransferInfo)
         /\ deletedActorCount' = deletedActorCount + 1
         /\ GrpReturn(Nil)
         /\ UNCHANGED <<actorsOut, resultCount, writerPc>>
    ELSE IF ~setOk
    THEN /\ writerPc' = "exited"
         /\ GrpReturn(ErrSetActor)
         /\ UNCHANGED <<actorsOut, resultCount, deletedActorCount, balanceTransferList>>
    ELSE /\ actorsOut' = (result.address :> result.actor) @@ actorsOut
         /\ resultCount' = resultCount + 1
         /\ GrpReturn(Nil)
         /\ UNCHANGED <<writerPc, deletedActorCount, balanceTransferList>>

WriterRecv ==
    /\ writerPc = "recv"
    /\ jobResultCh # <<>>
    /\ jobResultCh' = Tail(jobResultCh)
    /\ consumed' = Append(consumed, Head(jobResultCh).address)
    /\ \E setOk \in BOOLEAN : WriterRoute(Head(jobResultCh), setOk)
    /\ UNCHANGED <<envVars, cache, stored, wrappedCalls, mainVars, jobCh, jobChClosed,
                   jobResultChClosed, producerVars, doneCount, wPc, wRes, closerPc>>

\* Unbuffered result channel: a worker's send and the writer's receive meet.
WriterRecvDirect(w) ==
    /\ writerPc = "recv"
    /\ cfg.ResultQueueSize = 0
    /\ wPc[w] = "send"
    /\ wPc' = [wPc EXCEPT ![w] = "count"]
    /\ wRes' = [wRes EXCEPT ![w] = NilResult]
    /\ consumed' = Append(consumed, wRes[w].address)
    /\ \E setOk \in BOOLEAN : WriterRoute(wRes[w], setOk)
    /\ UNCHANGED <<envVars, cache, stored, wrappedCalls, mainVars, jobCh, jobChClosed, jobResultCh,
                   jobResultChClosed, producerVars, doneCount, closerPc>>

WriterExit ==
    /\ writerPc = "recv"
    /\ jobResultCh = <<>>
    /\ jobResultChClosed
    /\ writerPc' = "exited"
    /\ UNCHANGED <<envVars, cache, stored, wrappedCalls, mainVars, actorsOut, grpErr, ctxDone,
                   jobCh,
                   jobChClosed, jobResultCh, jobResultChClosed, producerVars, doneCount,
                   wPc, wRes, closerPc, resultCount, deletedActorCount,
                   balanceTransferList, consumed>>

(* Main: grp.Wait, the balance-transfer pass and the flush *)

AllStagesExited ==
    /\ prodPc = "exited"
    /\ \A w \in Workers : wPc[w] = "exited"
    /\ closerPc = "exited"
    /\ writerPc = "exited"

\* MainWait not waiting for the writer.
MainWaitWriterRunning ==
    /\ mainPc = "wait"
    /\ prodPc = "exited"
    /\ \A w \in Workers : wPc[w] = "exited"
    /\ closerPc = "exited"
    /\ ctxDone' = TRUE
    /\ IF grpErr # Nil
       THEN /\ mainPc' = "returned"
            /\ ret' = [root |-> Undef, err |-> grpErr]
       ELSE /\ mainPc' = "transfer"
            /\ ret' = ret
    /\ UNCHANGED <<envVars, cache, stored, wrappedCalls, treesLoaded, flushed, actorsOut,
                   grpErr, jobCh, jobChClosed, jobResultCh, jobResultChClosed, prodPc,
                   prodIdx, sent, jobCount, doneCount, wPc, wRes, closerPc, writerPc,
                   resultCount, deletedActorCount, balanceTransferList, consumed>>

\* MainWait returning the context's error instead of the group's.
MainWaitReturnsCtxErr ==
    /\ mainPc = "wait"
    /\ AllStagesExited
    /\ ctxDone' = TRUE
    /\ IF grpErr # Nil
       THEN /\ mainPc' = "returned"
            /\ ret' = [root |-> Undef, err |-> ErrCanceled]
       ELSE /\ mainPc' = "transfer"
            /\ ret' = ret
    /\ UNCHANGED <<envVars, cache, stored, wrappedCalls, treesLoaded, flushed, actorsOut, grpErr, jobCh,
                   jobChClosed, jobResultCh, jobResultChClosed, producerVars, doneCount,
                   wPc, wRes, closerPc, writerPc, resultCount, deletedActorCount,
                   balanceTransferList, consumed>>

MainWait ==
    /\ mainPc = "wait"
    /\ AllStagesExited
    /\ ctxDone' = TRUE
    /\ IF grpErr # Nil
       THEN /\ mainPc' = "returned"
            /\ ret' = [root |-> Undef, err |-> grpErr]
       ELSE /\ mainPc' = "transfer"
            /\ ret' = ret
    /\ UNCHANGED <<envVars, cache, stored, wrappedCalls, treesLoaded, flushed, actorsOut, grpErr, jobCh,
                   jobChClosed, jobResultCh, jobResultChClosed, producerVars, doneCount,
                   wPc, wRes, closerPc, writerPc, resultCount, deletedActorCount,
                   balanceTransferList, consumed>>

MainTransferAndFlush ==
    /\ mainPc = "transfer"
    /\ LET r == balanceTransferPass(actorsOut, balanceTransferList)
       IN  /\ actorsOut' = r.tree
           /\ IF r.err # Nil
              THEN /\ ret' = [root |-> Undef, err |-> r.err]
                   /\ flushed' = flushed
              ELSE /\ ret' = [root |-> r.tree, err |-> Nil]
                   /\ flushed' = TRUE
    /\ mainPc' = "returned"
    /\ UNCHANGED <<envVars, cache, stored, wrappedCalls, treesLoaded, grpErr, ctxDone, jobCh,
                   jobChClosed, jobResultCh, jobResultChClosed, producerVars, doneCount,
                   wPc, wRes, closerPc, writerPc, resultCount, deletedActorCount,
                   balanceTransferList, consumed>>

\* The caller runs MigrateStateTree again after a successful run, on the same
\* input and store and with the cache that run left, under any valid
\* configuration. A run that left the cache empty is not followed up: the
\* second run would start as the first did.
Rerun ==
    /\ mainPc = "returned"
    /\ ret.err = Nil
    /\ ~firstRun.done
    /\ cache # Absent
    /\ firstRun' = [done |-> TRUE, root |-> ret.root]
    /\ cfg' \in {c \in Configs : c.MaxWorkers >= 1}
    /\ wrappedCalls' = 0
    /\ mainPc' = "entry"
    /\ ret' = [root |-> Undef, err |-> Nil]
    /\ treesLoaded' = FALSE
    /\ actorsOut' = Absent
    /\ flushed' = FALSE
    /\ grpErr' = Nil
    /\ ctxDone' = FALSE
    /\ jobCh' = <<>> /\ jobChClosed' = FALSE
    /\ jobResultCh' = <<>> /\ jobResultChClosed' = FALSE
    /\ prodPc' = "none" /\ prodIdx' = 1 /\ sent' = <<>>
    /\ jobCount' = 0 /\ doneCount' = 0
    /\ wPc' = <<>> /\ wRes' = <<>>
    /\ closerPc' = "none"
    /\ writerPc' = "none"
    /\ resultCount' = 0 /\ deletedActorCount' = 0
    /\ balanceTransferList' = <<>>
    /\ consumed' = <<>>
    /\ UNCHANGED <<actorsIn, testMinPower, minerWired, minerCached, cache, stored>>

Next ==
    \/ Start
    \/ Rerun
    \/ ProducerUnknownCode
    \/ ProducerSend
    \/ ProducerCanceled
    \/ ProducerCount
    \/ ProducerDone
    \/ \E w \in Workers : WorkerRecv(w)
    \/ \E w \in Workers : WorkerRecvDirect(w)
    \/ \E w \in Workers : WorkerExit(w)
    \/ \E w \in Workers : WorkerSend(w)
    \/ \E w \in Workers : WorkerCanceled(w)
    \/ \E w \in Workers : WorkerCount(w)
    \/ CloserClose
    \/ WriterRecv
    \/ \E w \in Workers : WriterRecvDirect(w)
    \/ WriterExit
    \/ MainWait
    \/ MainTransferAndFlush

Spec == Init /\ [][Next]_vars

\* The steps of each goroutine of a run. A send on an unbuffered channel is a
\* step of the sender and of the receiver.
MainProc == Start \/ MainWait \/ MainTransferAndFlush
ProducerProc ==
    \/ ProducerUnknownCode \/ ProducerSend \/ ProducerCanceled \/ ProducerCount
    \/ ProducerDone
    \/ \E w \in Workers : WorkerRecvDirect(w)
WorkerProc(w) ==
    /\ w \in Workers
    /\ \/ WorkerRecv(w) \/ WorkerRecvDirect(w) \/ WorkerExit(w) \/ WorkerSend(w)
       \/ WorkerCanceled(w) \/ WorkerCount(w) \/ WriterRecvDirect(w)
WriterProc == WriterRecv \/ WriterExit \/ \E w \in Workers : WriterRecvDirect(w)

\* The scheduler runs every goroutine that can take a step: a goroutine that
\* stays able to take a step takes one. The caller's decision to call again
\* (Rerun) is under no such obligation.
Fairness ==
    /\ WF_vars(MainProc)
    /\ WF_vars(ProducerProc)
    /\ \A w \in 1..MaxWorkersBound : WF_vars(WorkerProc(w))
    /\ WF_vars(CloserClose)
    /\ WF_vars(WriterProc)

\* Trees on which each stage can fail: those of the burn account and one
\* more actor, of a registered or of an unknown code, and those of the burn
\* account, the miner t0101 and the power actor with a claim for t0101 of a
\* test proof type.
FairTrees ==
    {t \in InputTrees :
        /\ F099 \in DOMAIN t
        /\ \/ Cardinality(DOMAIN t) = 2 /\ "t0101" \notin DOMAIN t
           \/ /\ DOMAIN t = {"f04", F099, "t0101"}
              /\ isTestPostProofType(t["t0101"].Head.Info.WindowPoStProofType)}

InitFair == Init /\ actorsIn \in FairTrees

SpecFair == InitFair /\ [][Next]_vars /\ Fairness

-----------------------------------------------------------------------------
(* The driver with the miner migrator wired in *)

\* Trees with up to two test miners with all fields zero, t0101 and t0102,
\* owned by t0100, by a miner, or by t0999, which is no actor of the tree.
DeletionTrees ==
    {b @@ o @@ m1 @@ m2 :
        b \in BurnOptions,
        o \in {Absent, "t0100" :> Actor(CodeV5("Account"), PlainHead("Account"), 3, 5)},
        m1 \in {Absent} \cup
               {"t0101" :> Actor(CodeV5("StorageMiner"),
                                 MinerState("StackedDrgWindow2KiBV1", ow, 0, 0), 0, 7) :
                   ow \in {"t0100", "t0101", "t0102", "t0999"}}
               \cup {"t0101" :> Actor(CodeV5("StorageMiner"),
                                      MinerState("StackedDrgWindow32GiBV1", "t0100", 0, 0), 0, 7)},
        m2 \in {Absent} \cup
               {"t0102" :> Actor(CodeV5("StorageMiner"),
                                 MinerState("StackedDrgWinning512MiBV1", ow, 0, 0), 1, 2) :
                   ow \in {"t0100", "t0101", "t0999"}}}

\* A run of the driver with the miner migrator in place of the nil migrator of
\* the miner code, over a tree with up to two test miners.
InitMinerWired ==
    /\ cfg \in {c \in Configs : c.MaxWorkers >= 1}
    /\ actorsIn \in DeletionTrees
    /\ testMinPower = 0
    /\ firstRun = [done |-> FALSE, root |-> Absent]
    /\ minerWired = TRUE
    /\ minerCached = FALSE
    /\ cache = Absent
    /\ stored = {}
    /\ wrappedCalls = 0
    /\ mainPc = "entry"
    /\ ret = [root |-> Undef, err |-> Nil]
    /\ treesLoaded = FALSE
    /\ actorsOut = Absent
    /\ flushed = FALSE
    /\ grpErr = Nil
    /\ ctxDone = FALSE
    /\ jobCh = <<>> /\ jobChClosed = FALSE
    /\ jobResultCh = <<>> /\ jobResultChClosed = FALSE
    /\ prodPc = "none" /\ prodIdx = 1 /\ sent = <<>>
    /\ jobCount = 0 /\ doneCount = 0
    /\ wPc = <<>> /\ wRes = <<>>
    /\ closerPc = "none"
    /\ writerPc = "none"
    /\ resultCount = 0 /\ deletedActorCount = 0
    /\ balanceTransferList = <<>>
    /\ consumed = <<>>

\* A run of the driver with the miner migrator wrapped by cachedMigration as
\* the migrator of the miner code, over a tree with f099, possibly t0100, and
\* one or two test miners.
InitMinerCached ==
    /\ cfg \in {c \in Configs : c.MaxWorkers >= 1}
    /\ actorsIn \in {t \in DeletionTrees :
                        /\ F099 \in DOMAIN t
                        /\ "t0102" \notin DOMAIN t
                        /\ "t0101" \in DOMAIN t
                        /\ minerMigrateState([address |-> "t0101",
                                               balance |-> t["t0101"].Balance,
                                               head |-> t["t0101"].Head]).err = Nil}
    /\ testMinPower = 0
    /\ firstRun = [done |-> FALSE, root |-> Absent]
    /\ minerWired = TRUE
    /\ minerCached = TRUE
    /\ cache = Absent
    /\ stored = {}
    /\ wrappedCalls = 0
    /\ mainPc = "entry"
    /\ ret = [root |-> Undef, err |-> Nil]
    /\ treesLoaded = FALSE
    /\ actorsOut = Absent
    /\ flushed = FALSE
    /\ grpErr = Nil
    /\ ctxDone = FALSE
    /\ jobCh = <<>> /\ jobChClosed = FALSE
    /\ jobResultCh = <<>> /\ jobResultChClosed = FALSE
    /\ prodPc = "none" /\ prodIdx = 1 /\ sent = <<>>
    /\ jobCount = 0 /\ doneCount = 0
    /\ wPc = <<>> /\ wRes = <<>>
    /\ closerPc = "none"
    /\ writerPc = "none"
    /\ resultCount = 0 /\ deletedActorCount = 0
    /\ balanceTransferList = <<>>
    /\ consumed = <<>>

\* Trees of the burn account and one more actor that is no miner: an actor of
\* any kind, the power actor, or an actor of unknown code.
CoreTrees ==
    {t \in InputTrees :
        /\ Cardinality(DOMAIN t) = 2
        /\ F099 \in DOMAIN t
        /\ "t0101" \notin DOMAIN t}

\* The runs of the driver with the registered table over CoreTrees.
InitCore == Init /\ actorsIn \in CoreTrees

\* The runs of the driver with the miner migrator wired in, and with the
\* registered table over CoreTrees.
SpecMinerWired == (InitCore \/ InitMinerWired) /\ [][Next]_vars

\* The state at entry of a run with the bare miner migrator as the migrator of
\* the miner code, over one of the given trees.
InitWired(trees) ==
    /\ cfg \in {c \in Configs : c.MaxWorkers >= 1}
    /\ actorsIn \in trees
    /\ testMinPower = 0
    /\ firstRun = [done |-> FALSE, root |-> Absent]
    /\ minerWired = TRUE
    /\ minerCached = FALSE
    /\ cache = Absent
    /\ stored = {}
    /\ wrappedCalls = 0
    /\ mainPc = "entry"
    /\ ret = [root |-> Undef, err |-> Nil]
    /\ treesLoaded = FALSE
    /\ actorsOut = Absent
    /\ flushed = FALSE
    /\ grpErr = Nil
    /\ ctxDone = FALSE
    /\ jobCh = <<>> /\ jobChClosed = FALSE
    /\ jobResultCh = <<>> /\ jobResultChClosed = FALSE
    /\ prodPc = "none" /\ prodIdx = 1 /\ sent = <<>>
    /\ jobCount = 0 /\ doneCount = 0
    /\ wPc = <<>> /\ wRes = <<>>
    /\ closerPc = "none"
    /\ writerPc = "none"
    /\ resultCount = 0 /\ deletedActorCount = 0
    /\ balanceTransferList = <<>>
    /\ consumed = <<>>

\* miner5.State with the fields the miner migrator reads
MinerStateOf(proof, owner, deposits, locked, debt, pledge, sectors, precommitted) ==
    [PreCommitDeposits |-> deposits, LockedFunds |-> locked, FeeDebt |-> debt,
     InitialPledge |-> pledge, Sectors |-> sectors, PreCommittedSectors |-> precommitted,
     Info |-> [Owner |-> owner, WindowPoStProofType |-> proof]]

\* Miner states owned by t0100, of a test and of a production proof type, with
\* every field zero or with one field off zero: a token amount (a big.Int) of 1
\* or of -1, a sector array of length 1.
FieldMinerStates ==
    {MinerStateOf(proof, "t0100", f[1], f[2], f[3], f[4], f[5], f[6]) :
        proof \in {"StackedDrgWindow2KiBV1", "StackedDrgWindow32GiBV1"},
        f \in {g \in [1..6 -> {-1, 0, 1}] :
                  /\ g[5] >= 0 /\ g[6] >= 0
                  /\ Cardinality({i \in 1..6 : g[i] # 0}) <= 1}}

\* Trees of the burn account, the account t0100 and the miner t0101
FieldTrees ==
    {("f099" :> Actor(CodeV5("Account"), PlainHead("Account"), 0, 1))
     @@ ("t0100" :> Actor(CodeV5("Account"), PlainHead("Account"), 3, 5))
     @@ ("t0101" :> Actor(CodeV5("StorageMiner"), st, 0, 7)) : st \in FieldMinerStates}

InitMinerFields == InitWired(FieldTrees)

\* Trees of the burn account, the account t0100 and two test miners with all
\* fields zero, t0101 owned by t0100 and t0102 owned by t0100 or by t0999, no
\* actor of the tree; the balance of one or of both miners is negative.
NegativeBalanceTrees ==
    {("f099" :> Actor(CodeV5("Account"), PlainHead("Account"), 0, 1))
     @@ ("t0100" :> Actor(CodeV5("Account"), PlainHead("Account"), 3, 5))
     @@ ("t0101" :> Actor(CodeV5("StorageMiner"),
                          MinerState("StackedDrgWindow2KiBV1", "t0100", 0, 0), 0, b[1]))
     @@ ("t0102" :> Actor(CodeV5("StorageMiner"),
                          MinerState("StackedDrgWinning512MiBV1", ow, 0, 0), 1, b[2])) :
        ow \in {"t0100", "t0999"},
        b \in {<<7, -2>>, <<-3, 2>>, <<-3, -2>>}}

InitNegativeBalance == InitWired(NegativeBalanceTrees)

\* The runs of the driver with the miner migrator wired in over FieldTrees and
\* over NegativeBalanceTrees, and with the registered table over CoreTrees.
SpecMinerFields == (InitCore \/ InitMinerFields \/ InitNegativeBalance) /\ [][Next]_vars

\* The runs of the driver with the cached miner migrator wired in, and with the
\* registered table over CoreTrees.
SpecMinerCached == (InitCore \/ InitMinerCached) /\ [][Next]_vars

-----------------------------------------------------------------------------
(* Properties *)

Returned == mainPc = "returned"
Succeeded == Returned /\ ret.err = Nil
Failed == Returned /\ ret.err # Nil

IsMiner(tree, a) == a \in DOMAIN tree /\ tree[a].Code = CodeV5("StorageMiner")
IsPower(tree, a) == a \in DOMAIN tree /\ tree[a].Code = CodeV5("StoragePower")
IsTestMiner(tree, a) ==
    IsMiner(tree, a) /\ isTestPostProofType(tree[a].Head.Info.WindowPoStProofType)
HasNonzeroField(st) ==
    \/ st.PreCommitDeposits # 0 \/ st.LockedFunds # 0 \/ st.FeeDebt # 0
    \/ st.InitialPledge # 0 \/ st.Sectors # 0 \/ st.PreCommittedSectors # 0
\* a test miner with all economic fields zero and empty sector collections
IsCleanTestMiner(tree, a) == IsTestMiner(tree, a) /\ ~HasNonzeroField(tree[a].Head)
CleanTestMinersOf(tree, owner) ==
    {m \in DOMAIN tree : IsCleanTestMiner(tree, m) /\ tree[m].Head.Info.Owner = owner}

\* C1: after a successful run, a test miner with all fields zero whose owner is
\* an actor of the input tree is absent from the output tree, and the owner's
\* balance is its input balance plus the balances of the miners deleted for it.
C1_TestMinerDeletedOwnerCredited ==
    Succeeded =>
        \A m \in DOMAIN actorsIn :
            (IsCleanTestMiner(actorsIn, m) /\ actorsIn[m].Head.Info.Owner \in DOMAIN actorsIn) =>
                LET o == actorsIn[m].Head.Info.Owner
                IN  /\ m \notin DOMAIN ret.root
                    /\ o \in DOMAIN ret.root
                    /\ ret.root[o].Balance =
                           actorsIn[o].Balance
                           + SumBalances(actorsIn, CleanTestMinersOf(actorsIn, o))

\* C2: after a successful run, a miner of the input tree is absent from the
\* output tree exactly when its claim was removed from the claim map of the
\* output power actor, and miner_count fell by the number of such miners.
C2_MinerAndClaimRemovedTogether ==
    Succeeded =>
        \A p \in DOMAIN actorsIn :
            IsPower(actorsIn, p) =>
                LET inState == actorsIn[p].Head
                    outState == ret.root[p].Head
                    gone == {a \in DOMAIN actorsIn :
                                IsMiner(actorsIn, a) /\ a \notin DOMAIN ret.root}
                IN  /\ \A a \in DOMAIN actorsIn :
                           IsMiner(actorsIn, a) =>
                               (a \notin DOMAIN ret.root
                                <=> (a \in DOMAIN inState.Claims
                                     /\ a \notin DOMAIN outState.Claims))
                    /\ outState.MinerCount = inState.MinerCount - Cardinality(gone)

\* C5: after a successful run every actor of the output tree carries the v6
\* code identifier of the kind of its input code.
C5_CodeOfSameKind ==
    Succeeded =>
        \A a \in DOMAIN ret.root :
            /\ a \in DOMAIN actorsIn
            /\ ret.root[a].Code = CodeV6(actorsIn[a].Code.kind)

\* C8: a run over a tree holding a test miner with a nonzero economic field or
\* a non-empty sector collection fails and returns no root.
C8_DirtyTestMinerAborts ==
    (Returned /\ \E m \in DOMAIN actorsIn :
                    IsTestMiner(actorsIn, m) /\ HasNonzeroField(actorsIn[m].Head))
        => (ret.err # Nil /\ ret.root = Undef)

\* C3: conservation of value: after a successful run the balances of the
\* output tree sum to the sum of the balances of the input tree.
C3_ValueConserved ==
    Succeeded => TotalBalance(ret.root) = TotalBalance(actorsIn)

\* A successful run that recorded two transfers, one credited to an owner
\* present in the output and one to f099 in place of an absent owner.
C3_Witness ==
    /\ Succeeded
    /\ Len(balanceTransferList) = 2
    /\ \E i, j \in 1..2 :
           /\ balanceTransferList[i].address \in DOMAIN ret.root
           /\ balanceTransferList[j].address \notin DOMAIN ret.root
    /\ ret.root[F099].Balance > actorsIn[F099].Balance
    /\ TotalBalance(actorsIn) > 0

\* The set of the elements of a sequence.
Range(q) == {q[i] : i \in 1..Len(q)}

\* C4: cardinality: after a successful run the output tree has as many actors
\* as the input tree less the results with should_delete, and every address of
\* the input reached the writer exactly once.
C4_Cardinality ==
    Succeeded =>
        /\ Cardinality(DOMAIN ret.root) = Cardinality(DOMAIN actorsIn) - deletedActorCount
        /\ Len(consumed) = Cardinality(DOMAIN actorsIn)
        /\ Range(consumed) = DOMAIN actorsIn
        /\ DOMAIN ret.root \subseteq DOMAIN actorsIn

\* A successful run in which the writer dropped two deleted miners and
\* inserted the two other actors.
C4_Witness ==
    Succeeded /\ deletedActorCount = 2 /\ Cardinality(DOMAIN ret.root) = 2

\* The migration run sequentially: each actor in traversal order through its
\* job, the result routed as the writer routes it.
RECURSIVE sequentialResults(_, _, _, _)
sequentialResults(addrs, c, tree, list) ==
    IF addrs = <<>> THEN [err |-> Nil, tree |-> tree, list |-> list]
    ELSE LET a == Head(addrs)
             r == jobRun([Address |-> a, Actor |-> actorsIn[a],
                          actorMigration |-> migrations[actorsIn[a].Code]],
                         c, testMinPower)
         IN  IF r.err # Nil THEN [err |-> r.err, tree |-> tree, list |-> list]
             ELSE IF r.result.minerTypeMigrationShouldDelete
             THEN sequentialResults(Tail(addrs), r.cache, tree,
                      Append(list, r.result.minerTypeMigrationBalanceTransferInfo))
             ELSE sequentialResults(Tail(addrs), r.cache,
                      (a :> r.result.actor) @@ tree, list)
SequentialRoot ==
    LET r == sequentialResults(Traversal(actorsIn), Absent, Absent, <<>>)
    IN  IF r.err # Nil THEN r ELSE balanceTransferPass(r.tree, r.list)

\* C6: determinism: a successful run returns the tree of the sequential
\* migration of its input, whatever the worker count, the queue sizes and the
\* interleaving.
C6_SameRootForAnyWorkers ==
    (Succeeded /\ \A a \in DOMAIN actorsIn : actorsIn[a].Code \in DOMAIN migrations)
        => (SequentialRoot.err = Nil /\ ret.root = SequentialRoot.tree)

\* A successful run of two workers over four actors, the power actor among
\* them, with both queues buffered.
C6_Witness ==
    /\ Succeeded
    /\ cfg = [MaxWorkers |-> 2, JobQueueSize |-> 1, ResultQueueSize |-> 1]
    /\ Cardinality(DOMAIN actorsIn) = 4
    /\ consumed # Traversal(actorsIn)

StageErrors ==
    {ErrNoMigration, ErrSetActor, ErrMigrationFailed(ErrRawBytePower),
     ErrMigrationFailed(ErrQualityAdjPower)}

\* C7: once a stage has returned an error the balance-transfer pass never runs
\* and the tree is never flushed, and MigrateStateTree returns the undefined
\* root with the error the failing stage returned, never the cancellation
\* error of a stage it cancelled.
C7_FirstErrorReturned ==
    grpErr # Nil =>
        /\ mainPc # "transfer"
        /\ ~flushed
        /\ grpErr \in StageErrors
        /\ Returned => (ret.err = grpErr /\ ret.root = Undef)

\* A failed run in which a cancelled stage returned after the failing one.
C7_Witness ==
    /\ Failed
    /\ ret.err = ErrMigrationFailed(ErrRawBytePower)
    /\ cfg.MaxWorkers = 2
    /\ prodIdx <= Len(Traversal(actorsIn))

\* the run passed the configuration check and its tree holds an unregistered code
HasUnknownCode ==
    /\ cfg.MaxWorkers >= 1
    /\ \E a \in DOMAIN actorsIn : actorsIn[a].Code \notin DOMAIN migrations

\* C9 as stated: a run with a valid configuration over a tree with an unregistered code fails with 'no
\* registered migration function', returns no root and creates no job for the
\* actor.
C9_UnknownCodeError ==
    (Returned /\ HasUnknownCode) =>
        /\ ret.err = ErrNoMigration
        /\ ret.root = Undef
        /\ \A a \in DOMAIN actorsIn :
               actorsIn[a].Code \notin DOMAIN migrations => a \notin Range(sent)

\* C9 amended: the run fails and returns no root, no job is ever created for
\* the actor, and the error is 'no registered migration function' unless the
\* error of another stage was reported first.
C9_UnknownCodeFails ==
    HasUnknownCode =>
        /\ \A a \in DOMAIN actorsIn :
               actorsIn[a].Code \notin DOMAIN migrations => a \notin Range(sent)
        /\ Returned =>
               /\ ret.err \in StageErrors
               /\ ret.root = Undef
               /\ (ret.err # ErrNoMigration =>
                       \E a \in DOMAIN actorsIn :
                           /\ actorsIn[a].Code \in DOMAIN migrations
                           /\ a \in Range(sent))

\* A run that reached the actor of unknown code after sending other jobs.
C9_Witness ==
    /\ Returned
    /\ HasUnknownCode
    /\ ret.err = ErrNoMigration
    /\ Len(sent) >= 2

\* C10: a call with max_workers = 0 returns 'invalid migration config' and the
\* undefined root, and loads no tree, starts no stage, puts nothing to the
\* store and leaves the cache as it was.
C10_ZeroWorkersRejected ==
    cfg.MaxWorkers = 0 =>
        /\ ~treesLoaded /\ actorsOut = Absent /\ ~flushed
        /\ prodPc = "none" /\ closerPc = "none" /\ writerPc = "none" /\ Workers = {}
        /\ stored = {} /\ cache = Absent
        /\ sent = <<>> /\ jobCh = <<>> /\ jobResultCh = <<>>
        /\ mainPc \in {"entry", "returned"}
        /\ Returned => (ret.err = ErrInvalidConfig /\ ret.root = Undef)

C10_Witness ==
    /\ cfg.MaxWorkers = 0
    /\ Returned
    /\ ret.err = ErrInvalidConfig
    /\ actorsIn # Absent

\* The actor a transfer is credited to in a tree: its recipient if the tree
\* holds it, else f099.
TransferTarget(tree, t) == IF t.address \in DOMAIN tree THEN t.address ELSE F099

\* The sum of the amounts of the transfers of a list credited to address a.
RECURSIVE CreditedTo(_, _, _)
CreditedTo(tree, list, a) ==
    IF list = <<>> THEN 0
    ELSE (IF TransferTarget(tree, Head(list)) = a THEN Head(list).value ELSE 0)
         + CreditedTo(tree, Tail(list), a)

\* C11: the balance-transfer pass credits each recorded transfer to exactly one
\* actor of the output tree, the recipient if the tree holds it and else f099,
\* and changes nothing else; if some transfer has neither its recipient nor
\* f099 in the tree, the run fails and returns no root.
C11_FallbackRecipient ==
    [][mainPc = "transfer" =>
          IF \E i \in 1..Len(balanceTransferList) :
                 TransferTarget(actorsOut, balanceTransferList[i]) \notin DOMAIN actorsOut
          THEN /\ ret'.err = ErrNoRecipient
               /\ ret'.root = Undef
               /\ ~flushed'
          ELSE /\ ret'.err = Nil
               /\ DOMAIN ret'.root = DOMAIN actorsOut
               /\ \A a \in DOMAIN actorsOut :
                      ret'.root[a] =
                          [actorsOut[a] EXCEPT
                              !.Balance = @ + CreditedTo(actorsOut, balanceTransferList, a)]
    ]_vars

\* A successful run whose two transfers both went to f099: the owner of one
\* miner is no actor of the tree, that of the other is a deleted miner.
C11_Witness ==
    /\ Succeeded
    /\ Len(balanceTransferList) = 2
    /\ \A i \in 1..2 : balanceTransferList[i].address \notin DOMAIN ret.root
    /\ \E i \in 1..2 : balanceTransferList[i].address \in DOMAIN actorsIn
    /\ \E i \in 1..2 : balanceTransferList[i].address \notin DOMAIN actorsIn
    /\ ret.root[F099].Balance = actorsIn[F099].Balance + 9

\* the head the power migrator computes for the power actor at address a
PowerHeadOf(a) ==
    powerMigrateState([address |-> a, balance |-> actorsIn[a].Balance,
                       head |-> actorsIn[a].Head], testMinPower).res.newHead

\* C12: a run with the cache a successful cold run on the same input and store
\* left never invokes the wrapped power migrator and, if it succeeds, returns
\* the root of the cold run; and the cache holds, under the key of (address,
\* head), the head the wrapped migrator computes for that actor.
C12_WarmRunSameRoot ==
    /\ \A a \in DOMAIN actorsIn :
           (IsPower(actorsIn, a) /\ ActorHeadKey(a, actorsIn[a].Head) \in DOMAIN cache)
               => cache[ActorHeadKey(a, actorsIn[a].Head)] = PowerHeadOf(a)
    /\ firstRun.done =>
           /\ wrappedCalls = 0
           /\ Succeeded => ret.root = firstRun.root

\* A successful warm run over a tree whose power actor holds a claim, after a
\* cold run that invoked the power migrator.
C12_Witness ==
    /\ firstRun.done
    /\ Succeeded
    /\ IsPower(actorsIn, "f04")
    /\ DOMAIN actorsIn["f04"].Head.Claims # {}
    /\ ActorHeadKey("f04", actorsIn["f04"].Head) \in DOMAIN cache
    /\ PowerHeadOf("f04") \in stored
    /\ ret.root["f04"].Head = PowerHeadOf("f04")

\* the actor at address a of the input is migrated by a nil migrator
NilMigrated(a) ==
    /\ a \in DOMAIN actorsIn
    /\ actorsIn[a].Code \in DOMAIN migrations
    /\ migrations[actorsIn[a].Code].type = "nil"

\* the record a nil migration yields for the actor at address a
NilRecord(a) ==
    [Code |-> migrations[actorsIn[a].Code].OutCodeCID, Head |-> actorsIn[a].Head,
     CallSeqNum |-> actorsIn[a].CallSeqNum, Balance |-> actorsIn[a].Balance]

\* the results workers hold or have queued for the writer
ResultsInFlight ==
    Range(jobResultCh) \cup {wRes[w] : w \in {x \in Workers : wPc[x] = "send"}}

\* C13: for an actor whose code maps to a nil migrator, the result delivered
\* to the writer is not flagged for deletion and the record the writer inserts
\* has the migrator's output code and the input's head, call sequence number
\* and balance; the only values put to the store are the heads the power
\* migrator computes.
C13_NilMigrationFrame ==
    /\ \A r \in ResultsInFlight :
           NilMigrated(r.address) =>
               (~r.minerTypeMigrationShouldDelete /\ r.actor = NilRecord(r.address))
    /\ mainPc \in {"wait", "transfer"} =>
           \A a \in DOMAIN actorsOut : NilMigrated(a) => actorsOut[a] = NilRecord(a)
    /\ Succeeded =>
           \A a \in DOMAIN ret.root : NilMigrated(a) => ret.root[a].Head = actorsIn[a].Head
    /\ stored \subseteq {PowerHeadOf(a) : a \in {x \in DOMAIN actorsIn : IsPower(actorsIn, x)}}

\* A successful run that wrote nothing to the store and whose writer inserted
\* three nil-migrated actors, a miner and one with a nonzero call sequence
\* number among them.
C13_Witness ==
    /\ Succeeded
    /\ ~firstRun.done
    /\ stored = {}
    /\ Cardinality(DOMAIN ret.root) = 3
    /\ \A a \in DOMAIN ret.root : NilMigrated(a)
    /\ IsMiner(actorsIn, "t0101")
    /\ ret.root["t0100"] = [Code |-> CodeV6("Account"), Head |-> PlainHead("Account"),
                            CallSeqNum |-> 3, Balance |-> 5]

\* worker w takes a job from the job channel and runs its migrator
TakesJob(w) == WorkerRecv(w) \/ WorkerRecvDirect(w)

\* C14: once the shared context is cancelled no worker takes a further job
\* from the job channel and runs its migrator.
C14_NoJobTakenAfterCancel ==
    [][ctxDone => ~(\E w \in Workers : TakesJob(w))]_vars

\* the producer returned before the end of the traversal, at an actor of a
\* registered code
ProducerStoppedEarly ==
    /\ prodPc = "exited"
    /\ prodIdx <= Len(Traversal(actorsIn))
    /\ actorsIn[Traversal(actorsIn)[prodIdx]].Code \in DOMAIN migrations

\* C15 as stated: once the shared context is cancelled the producer sends no
\* further job, and the job channel is closed exactly when the producer has
\* exited.
C15_NoSendAfterCancel ==
    [][/\ (ctxDone /\ mainPc = "wait") => sent' = sent
       /\ jobChClosed' <=> prodPc' = "exited"]_vars

\* C15 amended: the job channel is closed exactly when the producer has exited,
\* whether at the end of the traversal, on an unregistered code or on
\* cancellation; the producer stops early at a registered code only if the
\* context is cancelled; and once the context is cancelled the producer with a
\* job in hand can always return, whether or not the job channel has room.
C15_ProducerReturnsAndCloses ==
    /\ jobChClosed <=> prodPc = "exited"
    /\ ProducerStoppedEarly => (ctxDone /\ grpErr # Nil)
    /\ (ctxDone /\ ProducerSending) => ENABLED ProducerCanceled
    /\ prodPc = "exited" => Len(sent) <= prodIdx

\* The producer returned on cancellation with actors left to visit, after a
\* failure of another stage, and the job channel is closed.
C15_Witness ==
    /\ ProducerStoppedEarly
    /\ jobChClosed
    /\ grpErr \in StageErrors
    /\ Len(sent) >= 1
    /\ mainPc = "wait"

\* the miner at address a is deleted by the run: a test miner with all fields
\* zero, migrated by the miner migrator
DeletedMiner(a) == minerWired /\ ~minerCached /\ IsCleanTestMiner(actorsIn, a)

\* the transfer recorded for the deleted miner at address a
TransferOf(a) == [address |-> actorsIn[a].Head.Info.Owner, value |-> actorsIn[a].Balance]

\* the transfers of the deleted miners among a sequence of addresses, in its order
TransfersAlong(addrs) ==
    LET del == SelectSeq(addrs, DeletedMiner)
    IN  [i \in 1..Len(del) |-> TransferOf(del[i])]

AddrsInPipeline ==
    {jobCh[i].Address : i \in 1..Len(jobCh)}
    \cup {r.address : r \in ResultsInFlight}
    \cup Range(consumed)
\* the number of those jobs and results
CountInPipeline ==
    Len(jobCh) + Len(jobResultCh) + Cardinality({w \in Workers : wPc[w] = "send"})
    + Len(consumed)

\* C17: the jobs sent are the actors of a prefix of the traversal, each sent
\* once; no address is at two places of the pipeline (job queue, a worker's
\* hands, result queue, writer) and none reaches the writer twice; after a
\* successful run every address was sent once and reached the writer once.
C17_OnceOnly ==
    /\ sent = SubSeq(Traversal(actorsIn), 1, Len(sent))
    /\ Cardinality(Range(sent)) = Len(sent)
    /\ AddrsInPipeline \subseteq Range(sent)
    /\ Cardinality(AddrsInPipeline) = CountInPipeline
    /\ Cardinality(Range(consumed)) = Len(consumed)
    /\ Succeeded =>
           /\ sent = Traversal(actorsIn)
           /\ Range(consumed) = DOMAIN actorsIn
           /\ Len(consumed) = Cardinality(DOMAIN actorsIn)
           /\ jobCh = <<>> /\ jobResultCh = <<>>

\* Two workers each hold a result for delivery while a third job waits in the
\* job queue and the writer has received nothing.
C17_Witness ==
    /\ cfg.MaxWorkers = 2
    /\ \A w \in Workers : wPc[w] = "send"
    /\ Len(jobCh) = 1
    /\ Len(sent) = 3
    /\ consumed = <<>>
    /\ mainPc = "wait"

\* the record of the result of the job of the actor at address a
MigratedRecord(a) ==
    [Code |-> migratedCodeCID(migrationOf(actorsIn[a].Code)),
     Head |-> IF IsPower(actorsIn, a) THEN PowerHeadOf(a) ELSE actorsIn[a].Head,
     CallSeqNum |-> actorsIn[a].CallSeqNum,
     Balance |-> actorsIn[a].Balance]

\* the writer returned because SetActor failed on the last result it received
SetActorFailedOn(i) ==
    /\ i = Len(consumed)
    /\ writerPc = "exited"
    /\ grpErr # Nil
    /\ consumed[i] \notin DOMAIN actorsOut

TreeBeforePass == [a \in DOMAIN actorsOut |-> MigratedRecord(a)]

WriterStep == writerPc = "recv" /\ consumed' # consumed
\* the step is the balance-transfer pass
PassStep == mainPc = "transfer" /\ mainPc' = "returned"
\* the step is the start of another call of MigrateStateTree
CallStep == mainPc = "returned" /\ mainPc' = "entry"

\* C19: the output tree changes only in steps of the writer and of the
\* balance-transfer pass and the transfer list only in steps of the writer;
\* when the pass starts the producer, every worker, the closer and the writer
\* have exited, and they take no step from then on.
C19_PhaseSeparation ==
    [][/\ actorsOut' # actorsOut => (WriterStep \/ PassStep \/ CallStep)
       /\ balanceTransferList' # balanceTransferList => (WriterStep \/ CallStep)
       /\ ~(WriterStep /\ PassStep)
       /\ mainPc' = "transfer" =>
              /\ prodPc' = "exited"
              /\ \A w \in DOMAIN wPc' : wPc'[w] = "exited"
              /\ closerPc' = "exited"
              /\ writerPc' = "exited"
       /\ mainPc = "transfer" =>
              UNCHANGED <<prodPc, wPc, closerPc, writerPc, consumed, jobCh, jobResultCh>>
    ]_vars

\* The pass is about to start on two recorded transfers, after two workers, the
\* producer, the closer and the writer have exited.
C19_Witness ==
    /\ mainPc = "transfer"
    /\ Len(balanceTransferList) = 2
    /\ actorsOut # Absent
    /\ cfg.MaxWorkers = 2
    /\ writerPc = "exited" /\ closerPc = "exited" /\ prodPc = "exited"

\* the step is the writer's return at the close of the result channel
WriterSeesClosed == writerPc = "recv" /\ writerPc' = "exited" /\ consumed' = consumed

\* C20: the result channel is closed by the closer, once, when every worker
\* has exited, in failed runs as in successful ones; nothing is sent on it
\* once it is closed; and the writer returns at the close only when it has
\* received every result the workers delivered.
C20_ResultChannelClosedOnce ==
    [][/\ jobResultChClosed' =>
              /\ closerPc' = "exited"
              /\ \A w \in DOMAIN wPc' : wPc'[w] = "exited"
       /\ (jobResultChClosed' /\ ~jobResultChClosed) => closerPc = "wait"
       /\ closerPc = "exited" => (jobResultChClosed /\ (closerPc' = "exited" \/ CallStep))
       /\ jobResultChClosed => (jobResultChClosed' \/ CallStep)
       /\ jobResultChClosed => Len(jobResultCh') <= Len(jobResultCh)
       /\ WriterSeesClosed =>
              /\ jobResultChClosed
              /\ jobResultCh = <<>>
              /\ Len(consumed) = doneCount
       /\ (mainPc' = "returned" /\ treesLoaded') => jobResultChClosed'
    ]_vars

\* A failed run of two workers whose result channel was closed with a result
\* still queued, after the writer had returned on a SetActor error.
C20_Witness ==
    /\ Failed
    /\ ret.err = ErrSetActor
    /\ cfg.MaxWorkers = 2
    /\ jobResultChClosed
    /\ jobResultCh # <<>>
    /\ \A w \in Workers : wPc[w] = "exited"

\* the input of the migrator of the actor at address a
InputOf(a) == [address |-> a, balance |-> actorsIn[a].Balance, head |-> actorsIn[a].Head]

\* the result carries neither the deletion flag nor a transfer
NoDeletion(res) ==
    res.err = Nil =>
        (~res.minerTypeMigrationShouldDelete
         /\ res.minerTypeMigrationBalanceTransferInfo = NoTransfer)

\* C21: a cached migrator returns should_delete = false and no transfer on a
\* cache miss as on a cache hit, also when it wraps the miner migrator on a
\* miner that migrator deletes, so a run with such a table deletes no actor and
\* records no transfer; and the driver's table wraps no migrator that can
\* return should_delete = true.
C21_CachedNeverDeletes ==
    /\ \A code \in DOMAIN migrations :
           migrations[code].type = "cached" => migrations[code].actorMigration.type # "miner"
    /\ \A a \in DOMAIN actorsIn :
           IsMiner(actorsIn, a) =>
               LET c == cachedMigration(minerMigrator)
                   key == ActorHeadKey(a, actorsIn[a].Head)
               IN  /\ NoDeletion(cachedMigrateState(c, InputOf(a), Absent, testMinPower).res)
                   /\ NoDeletion(cachedMigrateState(c, InputOf(a),
                                     key :> actorsIn[a].Head, testMinPower).res)
    /\ \A r \in ResultsInFlight :
           migrationOf(actorsIn[r.address].Code).type = "cached" =>
               (~r.minerTypeMigrationShouldDelete
                /\ r.minerTypeMigrationBalanceTransferInfo = NoTransfer)
    /\ minerCached => (deletedActorCount = 0 /\ balanceTransferList = <<>>)
    /\ (minerCached /\ Succeeded) => DOMAIN ret.root = DOMAIN actorsIn

\* A successful warm run with the cached miner migrator: the test miner t0101,
\* which the bare miner migrator deletes, is in the output and the wrapped
\* migrator was not called.
C21_Witness ==
    /\ minerCached
    /\ firstRun.done
    /\ Succeeded
    /\ wrappedCalls = 0
    /\ minerMigrateState(InputOf("t0101")).minerTypeMigrationShouldDelete
    /\ "t0101" \in DOMAIN ret.root
    /\ ActorHeadKey("t0101", actorsIn["t0101"].Head) \in DOMAIN cache

\* the result of the miner migrator on the miner at address a, as job.run
\* hands it to the writer
MinerResult(a, del, transfer) ==
    [minerTypeMigrationShouldDelete |-> del,
     minerTypeMigrationBalanceTransferInfo |-> transfer,
     address |-> a,
     actor |-> [Code |-> CodeV6("StorageMiner"), Head |-> actorsIn[a].Head,
                CallSeqNum |-> actorsIn[a].CallSeqNum, Balance |-> actorsIn[a].Balance]]

\* the miner migrator is the migrator of the miner code
MinerBare == minerWired /\ ~minerCached

\* C22: the miner migrator returns, for a miner of a non-test proof type, the
\* new miner code, the input head and should_delete = false; for a miner of a
\* test proof type it returns a result only when the four token amounts are
\* exactly 0 and the two sector arrays are empty, and that result is the input
\* head, should_delete = true and the transfer {owner, balance}; a test miner
\* with any other field value, a negative one included, yields an error and no
\* result, so that the run fails.
C22_MinerClassification ==
    MinerBare =>
        /\ \A r \in ResultsInFlight :
               IsMiner(actorsIn, r.address) =>
                   IF IsTestMiner(actorsIn, r.address)
                   THEN /\ ~HasNonzeroField(actorsIn[r.address].Head)
                        /\ r = MinerResult(r.address, TRUE,
                                   [address |-> actorsIn[r.address].Head.Info.Owner,
                                    value |-> actorsIn[r.address].Balance])
                   ELSE r = MinerResult(r.address, FALSE, NoTransfer)
        /\ \A a \in DOMAIN actorsIn :
               (IsTestMiner(actorsIn, a) /\ HasNonzeroField(actorsIn[a].Head)) => ~Succeeded

\* the claims of a claim map whose proof type is a test proof type
TestClaims(claims) ==
    {m \in DOMAIN claims : isTestPostProofType(claims[m].WindowPoStProofType)}

\* C23: after a successful run the power state stored under the head of the
\* output power actor has the input claim map without the claims of test proof
\* types, every claim of another proof type unchanged, and the input miner
\* count less the number of claims removed.
C23_PowerClaimsRemoved ==
    Succeeded =>
        \A p \in DOMAIN actorsIn :
            IsPower(actorsIn, p) =>
                LET inState == actorsIn[p].Head
                    outState == ret.root[p].Head
                    removed == TestClaims(inState.Claims)
                IN  /\ outState \in stored
                    /\ DOMAIN outState.Claims = DOMAIN inState.Claims \ removed
                    /\ \A m \in DOMAIN inState.Claims \ removed :
                           outState.Claims[m] = inState.Claims[m]
                    /\ outState.MinerCount = inState.MinerCount - Cardinality(removed)

\* some claim of a test proof type in the claim map holds power
HasPoweredTestClaim(claims) ==
    \E m \in TestClaims(claims) :
        claims[m].RawBytePower > 0 \/ claims[m].QualityAdjPower > 0

\* the power actors of the input whose claim map has such a claim
PoweredTestClaimActors ==
    {p \in DOMAIN actorsIn :
        IsPower(actorsIn, p) /\ HasPoweredTestClaim(actorsIn[p].Head.Claims)}

\* C24: on a power actor with a claim of a test proof type that has positive
\* raw byte power or positive quality-adjusted power, the power migrator
\* returns an error and no head and puts nothing to the store; no result for
\* that actor ever reaches the writer, no state made from its claim map is
\* stored, and a run over a tree with such an actor ends with an error and no
\* root.
C24_PoweredTestClaimAborts ==
    \A p \in PoweredTestClaimActors :
        LET r == powerMigrateState(InputOf(p), testMinPower)
        IN  /\ r.res.err \in {ErrRawBytePower, ErrQualityAdjPower}
            /\ r.res.newHead = Undef
            /\ r.puts = {}
            /\ \A x \in ResultsInFlight : x.address # p
            /\ \A st \in stored : st.Claims # actorsIn[p].Head.Claims
            /\ p \notin DOMAIN actorsOut
            /\ Returned => (ret.err # Nil /\ ret.root = Undef)

\* A run has failed with the error of the power migrator on a test-proof claim
\* that holds power.
C24_Witness ==
    /\ PoweredTestClaimActors # {}
    /\ Returned
    /\ Failed
    /\ ret.err \in {ErrMigrationFailed(ErrRawBytePower), ErrMigrationFailed(ErrQualityAdjPower)}
    /\ wrappedCalls >= 1

\* the indices of the transfers of negative amount in the list
NegativeTransfers == {i \in 1..Len(balanceTransferList) : balanceTransferList[i].value < 0}

\* the least element of a non-empty set of numbers
Least(S) == CHOOSE i \in S : \A j \in S : i <= j

\* C25: the balance-transfer pass decreases the balance of no actor; when the
\* list holds a transfer of negative amount the run returns an error and no
\* root and flushes nothing, and the tree is left as the transfers before the
\* first negative one made it: that transfer is not applied.
C25_NegativeTransferFails ==
    [][PassStep =>
          /\ DOMAIN actorsOut' = DOMAIN actorsOut
          /\ \A a \in DOMAIN actorsOut : actorsOut'[a].Balance >= actorsOut[a].Balance
          /\ NegativeTransfers # {} =>
                 /\ ret'.err # Nil
                 /\ ret'.root = Undef
                 /\ ~flushed'
                 /\ actorsOut' =
                        balanceTransferPass(actorsOut,
                            SubSeq(balanceTransferList, 1, Least(NegativeTransfers) - 1)).tree
      ]_vars

\* The pass has credited the balance 7 of the deleted miner t0101 to t0100 and
\* then failed on the negative balance of the deleted miner t0102.
C25_Witness ==
    /\ Returned
    /\ ret.err = ErrNegativeTransfer
    /\ Len(balanceTransferList) = 2
    /\ balanceTransferList[1].value = 7
    /\ balanceTransferList[2].value < 0
    /\ actorsOut["t0100"].Balance = 12
    /\ actorsOut["f099"].Balance = 1

\* the owner recorded in the miner info of the miner at address a
OwnerOf(a) == actorsIn[a].Head.Info.Owner

\* the miners the run deletes
DeletedMiners == {a \in DOMAIN actorsIn : DeletedMiner(a)}

\* the deleted miners whose owner is a deleted miner, itself or another one
OwnerDeleted == {a \in DeletedMiners : OwnerOf(a) \in DeletedMiners}

\* the deleted miners whose owner is no actor of the output tree
Orphans == {a \in DeletedMiners : OwnerOf(a) \notin DOMAIN actorsIn \ DeletedMiners}

\* C26: when the owner of a deleted miner is a miner this run deletes, the
\* miner itself or another one, and the pipeline has succeeded, the transfer is
\* handled as one whose recipient is missing: with f099 in the tree the run
\* succeeds, no deleted miner is in the output tree and f099 holds its input
\* balance plus the balances of all deleted miners whose owner is not in the
\* output tree; without f099 the run fails for lack of a recipient.
C26_DeletedRecipientIsMissing ==
    (Returned /\ grpErr = Nil /\ OwnerDeleted # {}) =>
        IF F099 \in DOMAIN actorsIn
        THEN /\ ret.err = Nil
             /\ DOMAIN ret.root = DOMAIN actorsIn \ DeletedMiners
             /\ ret.root[F099].Balance =
                    actorsIn[F099].Balance + SumBalances(actorsIn, Orphans)
        ELSE /\ ret.err = ErrNoRecipient
             /\ ret.root = Undef

\* A successful run has deleted t0101, owned by the deleted miner t0102, and
\* t0102, owned by the deleted miner t0101: f099 holds the balances of both.
C26_Witness ==
    /\ Succeeded
    /\ {"t0101", "t0102"} \subseteq DeletedMiners
    /\ OwnerOf("t0101") = "t0102"
    /\ OwnerOf("t0102") = "t0101"
    /\ DOMAIN ret.root \cap {"t0101", "t0102"} = {}
    /\ ret.root[F099].Balance = actorsIn[F099].Balance + 7 + 2

\* the deleted miners whose balance the pass credits to address a: those owned
\* by a when a is in the output tree, and for f099 also those whose owner is
\* not in the output tree
CreditorsOf(a) ==
    {m \in DeletedMiners :
        \/ OwnerOf(m) = a /\ a \notin DeletedMiners
        \/ a = F099 /\ m \in Orphans}

\* C27: after a successful run every actor of the output tree has the code,
\* the head and the call sequence number its migration gave it, and its input
\* balance plus the balances of the deleted miners credited to it; an actor
\* that is credited nothing has exactly its input balance.
C27_BalanceFrame ==
    Succeeded =>
        \A a \in DOMAIN ret.root :
            /\ a \in DOMAIN actorsIn
            /\ ret.root[a].Code = MigratedRecord(a).Code
            /\ ret.root[a].Head = MigratedRecord(a).Head
            /\ ret.root[a].CallSeqNum = actorsIn[a].CallSeqNum
            /\ ret.root[a].Balance =
                   actorsIn[a].Balance + SumBalances(actorsIn, CreditorsOf(a))
            /\ CreditorsOf(a) = {} => ret.root[a].Balance = actorsIn[a].Balance

\* A successful run has credited the balances of the deleted miners t0101 and
\* t0102 to their owner t0100, whose call sequence number 3 and head are kept,
\* and nothing to f099.
C27_Witness ==
    /\ Succeeded
    /\ CreditorsOf("t0100") = {"t0101", "t0102"}
    /\ F099 \in DOMAIN ret.root
    /\ CreditorsOf(F099) = {}
    /\ ret.root["t0100"].Balance = 5 + 7 + 2
    /\ ret.root["t0100"].CallSeqNum = 3
    /\ ret.root["t0100"].Head = actorsIn["t0100"].Head
    /\ ret.root[F099].Balance = 1

\* C28: under fair scheduling every call of MigrateStateTree returns, and once
\* the goroutines are started the producer, every worker, the closer and the
\* writer all exit, whatever the number of workers and the queue sizes, and
\* whether the run succeeds or the producer, a worker or the writer fails.
C28_EveryRunReturns ==
    /\ (mainPc = "entry") ~> Returned
    /\ (mainPc = "wait") ~> AllStagesExited

\* A run with two workers and unbuffered channels has returned the writer's
\* error with every goroutine exited.
C28_Witness ==
    /\ Returned
    /\ ret.err = ErrSetActor
    /\ cfg.MaxWorkers = 2
    /\ cfg.JobQueueSize = 0
    /\ cfg.ResultQueueSize = 0
    /\ AllStagesExited

\* a uint32 as its two 16-bit halves
W16 == 65536
Uint32(n) == [hi |-> (n \div W16) % W16, lo |-> n % W16]

\* a - b on uint32
Sub32(a, b) ==
    LET borrow == IF a.lo < b.lo THEN 1 ELSE 0
    IN  [hi |-> (a.hi - b.hi - borrow) % W16, lo |-> (a.lo - b.lo) % W16]

\* the monitor of a run with a positive ProgressLogPeriod has not returned:
\* the workers have not all finished and the context is not cancelled
MonitorRunning == mainPc = "wait" /\ closerPc = "wait" /\ ~ctxDone

\* pendingNow of the monitor when its timer fires in this state
pendingNow == Sub32(Uint32(jobCount), Uint32(doneCount))

\* C29: doneCount never exceeds jobCount, so the pending count the monitor
\* computes as jobCount - doneCount on uint32 is the number of jobs created and
\* not yet done; after a successful run both counters are the number of actors
\* of the input tree.
C29_DoneAtMostCreated ==
    /\ doneCount <= jobCount
    /\ MonitorRunning => pendingNow = Uint32(jobCount - doneCount)
    /\ Succeeded =>
           /\ jobCount = Cardinality(DOMAIN actorsIn)
           /\ doneCount = Cardinality(DOMAIN actorsIn)

====
